---- MODULE Spec2Model ----
(***************************************************************************)
(* LogAI identity hub: the credentials sign-in flow (lib/auth.ts), the     *)
(* Redis-backed rate limiters (lib/rate-limiter.ts), the API middleware    *)
(* (lib/security), the MFA service (lib/mfa), the audit logger (lib/audit) *)
(* and the admin user-action route, as one state machine.                  *)
(*                                                                         *)
(* Time is in seconds.  A request handler is one action; the handlers the  *)
(* concurrency claims are about are split at their awaits.                 *)
(***************************************************************************)
EXTENDS Integers, Sequences, FiniteSets, TLC

VARIABLES
    users,        \* the users table: user id -> row
    loginStore,   \* Redis keys of rateLimiter (login_rate_limit), by key
    registrationStore,
                  \* Redis keys of registrationRateLimiter, by key
    apiStore,     \* Redis keys of apiRateLimiter (api_rate_limit), by key
    mfaStore,     \* Redis keys of mfaRateLimiter (mfa_rate_limit), by key
    isConnected,  \* rate-limiter.ts: let isConnected
    redisUp,      \* whether the Redis server answers
    now,          \* wall clock, seconds
    last,         \* what the latest request did and returned
    auditRows,    \* entries the latest request passed to auditLogger.log
    mfaTries,     \* history: MFA codes verified against a stored secret
                  \* since the clock last moved
    calls,        \* verifyBackupCode calls in flight: caller -> its locals
    probe,        \* the latest direct call of an MFAService method
    page,         \* the sign-in page of one browser: its React state
    issued,       \* history: the secrets generate-secret has answered
                  \* with, each with the user it answered
    auditDbUp,    \* whether inserts into audit_logs succeed
    fallbackRows  \* entries of the latest request handed to the fallback
                  \* logger instead

vars == <<users, loginStore, registrationStore, apiStore, mfaStore, isConnected, redisUp, now,
          last, auditRows, mfaTries, calls, probe, page, issued, auditDbUp,
          fallbackRows>>

----------------------------------------------------------------------------
(* Bounds of the exploration. *)

MaxClock == 1350        \* the clock stops here
TickStep == 450         \* seconds that pass in one Tick
MaxLoginHits == 7       \* consume calls explored on one login key
MaxApiHits == 3         \* consume calls explored on one api key
MaxFloodHits == 13      \* the same, where MFA codes are guessed
MaxOverLimit == 2       \* consume calls explored past the api limit
MaxCount == 2           \* largest explicit count given to generateBackupCodes
MaxAhead == 3           \* periods around now whose codes are tried
MaxEnrolHits == 4       \* MFA requests explored in the enrollment
                        \* specification

----------------------------------------------------------------------------
(* Values. *)

Null == "null"
NoTime == 0 - 1

\* A header is the list of the addresses it names; an absent header is <<>>.
IPs == {"10.0.0.1", "10.0.0.2"}
NoHeader == <<>>
Unknown == <<"unknown">>
NoIp == <<>>

AdminId == "id-admin"
UserId == "id-user"
UserIds == {AdminId, UserId}

AdminEmail == <<"a", "@", "x">>
UserEmail == <<"u", "@", "x">>

\* String.prototype.toLowerCase on the characters the inputs use.
LowerChar(c) ==
    CASE c = "A" -> "a"
      [] c = "U" -> "u"
      [] c = "X" -> "x"
      [] c = "N" -> "n"
      [] OTHER -> c

ToLowerCase(s) == [i \in 1..Len(s) |-> LowerChar(s[i])]

\* bcrypt: a hash is an opaque value made from the plaintext; compare
\* re-hashes the candidate.
BcryptHash(password) == <<"$2a$12$", password>>

BcryptCompare(password, hash) == hash = BcryptHash(password)

AdminPassword == "Admin#2024"
UserPassword == "User#2024"

----------------------------------------------------------------------------
(* rate-limiter-flexible, RateLimiterRedis: a key holds the points consumed *)
(* in the current window and expires when the window ends.                  *)

NoKey == [consumedPoints |-> 0, expireAt |-> 0]

LoginPoints == 5
ApiPoints == 1000
MfaPoints == 10

rateLimiter ==
    [keyPrefix |-> "login_rate_limit", points |-> LoginPoints,
     duration |-> 15 * 60, blockDuration |-> 15 * 60]

apiRateLimiter ==
    [keyPrefix |-> "api_rate_limit", points |-> ApiPoints,
     duration |-> 60 * 60, blockDuration |-> 60 * 60]

mfaRateLimiter ==
    [keyPrefix |-> "mfa_rate_limit", points |-> MfaPoints,
     duration |-> 5 * 60, blockDuration |-> 15 * 60]

RegistrationPoints == 3

registrationRateLimiter ==
    [keyPrefix |-> "registration_rate_limit", points |-> RegistrationPoints,
     duration |-> 60 * 60, blockDuration |-> 60 * 60]

Max(a, b) == IF a > b THEN a ELSE b

\* SET key 0 EX duration NX; INCRBY key points: the window starts with the
\* first point and is not extended by later ones.
Upsert(rec, points, duration, t) ==
    IF rec = NoKey
    THEN [consumedPoints |-> points, expireAt |-> t + duration]
    ELSE [rec EXCEPT !.consumedPoints = @ + points]

\* mutant: blocking leaves the key's time to live as it was
Block_KeepsWindow(rec, blockDuration, t) == rec

\* _block: SET key consumed EX blockDuration.
Block(rec, blockDuration, t) ==
    [consumedPoints |-> rec.consumedPoints, expireAt |-> t + blockDuration]

\* The value a consume() promise settles with.  It has the fields of
\* RateLimiterRes and no others.
RateLimiterRes(limiter, rec, t) ==
    [remainingPoints |-> Max(limiter.points - rec.consumedPoints, 0),
     msBeforeNext |-> (rec.expireAt - t) * 1000,
     consumedPoints |-> rec.consumedPoints]

\* What a Redis command rejects with when the server cannot be reached.
RedisError == [message |-> "The client is closed"]

\* limiter.consume(key, 1) on a reachable store; the result names the new
\* key record and how the promise settles.
ConsumeStep(limiter, rec, t) ==
    LET up == Upsert(rec, 1, limiter.duration, t)
        firstOver == limiter.blockDuration > 0
                     /\ up.consumedPoints <= limiter.points + 1
        blocked == IF firstOver THEN Block(up, limiter.blockDuration, t) ELSE up
    IN  IF up.consumedPoints > limiter.points
        THEN [rec |-> blocked, resolved |-> FALSE,
              value |-> RateLimiterRes(limiter, blocked, t)]
        ELSE [rec |-> up, resolved |-> TRUE,
              value |-> RateLimiterRes(limiter, up, t)]

\* limiter.consume(key) on the shared client: the command fails when the
\* client was never connected or the server is down.
Consume(limiter, store, key, t, online) ==
    IF ~online
    THEN [store |-> store, resolved |-> FALSE, value |-> RedisError]
    ELSE LET c == ConsumeStep(limiter, store[key], t)
         IN  [store |-> [store EXCEPT ![key] = c.rec],
              resolved |-> c.resolved, value |-> c.value]

\* Redis drops a key when its time to live is over.
Expire(store, t) ==
    [k \in DOMAIN store |-> IF store[k].expireAt <= t THEN NoKey ELSE store[k]]

----------------------------------------------------------------------------
(* The audit logger. *)

AuditEntry(userId, action, ip, success, errorMessage) ==
    [userId |-> userId, action |-> action, ipAddress |-> ip,
     success |-> success, errorMessage |-> errorMessage]

\* mutant: an entry whose insert failed is dropped
AuditLoggerLog_Drops(entries, dbUp) ==
    [threw |-> FALSE,
     inserted |-> IF dbUp THEN entries ELSE <<>>,
     fallback |-> <<>>]

\* AuditLogger.log on the entries of one request: each is inserted into
\* audit_logs, or, when the insert throws, caught and handed to
\* logger.error as originalEntry; nothing is rethrown.
AuditLoggerLog(entries, dbUp) ==
    [threw |-> FALSE,
     inserted |-> IF dbUp THEN entries ELSE <<>>,
     fallback |-> IF dbUp THEN <<>> ELSE entries]

\* where the entries of the step went; the caller goes on because log did
\* not throw
Logged ==
    /\ ~AuditLoggerLog(auditRows', auditDbUp).threw
    /\ fallbackRows' = AuditLoggerLog(auditRows', auditDbUp).fallback
    /\ UNCHANGED auditDbUp

NoCode == 0 - 1
NoCredentials == [email |-> <<>>, password |-> "", mfaCode |-> NoCode]

\* The record of a request: what was asked (op, caller, target, action,
\* credentials, ip) and what came back (status, error, returned), whether
\* the rate limiter let it through, whether the limiter check failed with
\* an error, whether an MFA code was verified, and how often the wrapped
\* handler and the route handler were called.
NoResult ==
    [op |-> "none", caller |-> Null, target |-> Null, action |-> Null,
     credentials |-> NoCredentials, ip |-> NoIp, status |-> 0,
     error |-> Null, returned |-> Null, passedLimiter |-> FALSE,
     limiterError |-> FALSE, mfaVerified |-> FALSE, wrappedCalls |-> 0,
     handlerCalls |-> 0, role |-> Null]

----------------------------------------------------------------------------
(* lib/auth.ts: CredentialsProvider.authorize *)

TooManyFailed == "Too many failed login attempts"
RateLimitedMsg == "Too many login attempts. Please try again later."
LockedMsg == "Account is locked. Please contact support."
InactiveMsg == "Account is inactive. Please contact support."

\* clientIp: x-forwarded-for || x-real-ip || 'unknown'
AuthClientIp(headers) ==
    IF headers.forwarded # NoHeader THEN headers.forwarded
    ELSE IF headers.real # NoHeader THEN headers.real
    ELSE Unknown

\* db.select().from(users).where(eq(users.email, email)): the ids found
FindByEmail(table, email) == {id \in DOMAIN table : table[id].email = email}

\* speakeasy TOTP: the counter of a time and the 6-digit code of a counter.
\* The HMAC is stood for by a fixed mixing function of secret and counter.
TotpPeriod == 30
TotpModulus == 1000000

NoSecret == "null"

SecretSeed(secret) ==
    CASE secret = "JBSWY3DPEHPK3PXP" -> 492039
      [] secret = "KRSXG5CTMVRXEZLU" -> 118603
      [] OTHER -> 0

TotpCounter(t) == t \div TotpPeriod

TotpCode(secret, counter) ==
    (SecretSeed(secret) + counter * counter * 7919 + counter * 104729)
        % TotpModulus

\* totp.verifyDelta: the token is compared with the code of every counter
\* from counter - window to counter + window.
RECURSIVE VerifyDelta(_, _, _, _)
VerifyDelta(token, secret, from, to) ==
    IF from > to THEN FALSE
    ELSE IF TotpCode(secret, from) = token THEN TRUE
    ELSE VerifyDelta(token, secret, from + 1, to)

\* mutant: every token verifies
SpeakeasyVerify_AnyToken(token, secret, window, t) == TRUE

\* speakeasy.authenticator.verify({token, secret, encoding, window})
SpeakeasyVerify(token, secret, window, t) ==
    VerifyDelta(token, secret, TotpCounter(t) - window, TotpCounter(t) + window)

\* mutant: the account locks one failure late
FailedPasswordRow_LateLock(user) ==
    [user EXCEPT
        !.loginAttempts = user.loginAttempts + 1,
        !.isLocked = user.loginAttempts + 1 > 5,
        !.lockReason = IF user.loginAttempts + 1 > 5 THEN TooManyFailed
                       ELSE Null]

\* the update of a failed password check
FailedPasswordRow(user) ==
    [user EXCEPT
        !.loginAttempts = user.loginAttempts + 1,
        !.isLocked = user.loginAttempts + 1 >= 5,
        !.lockReason = IF user.loginAttempts + 1 >= 5 THEN TooManyFailed
                       ELSE Null]

\* the update of a successful login
SuccessfulLoginRow(user, clientIp, t) ==
    [user EXCEPT !.loginAttempts = 0, !.lastLoginAt = t,
                 !.lastLoginIp = clientIp]

LoginAudit(userId, clientIp, success, errorMessage) ==
    <<AuditEntry(userId, "login", clientIp, success, errorMessage)>>

AuthResult(credentials, target, clientIp, error, returned, passed, verified) ==
    [NoResult EXCEPT !.op = "authorize", !.credentials = credentials,
                     !.target = target, !.ip = clientIp,
                     !.error = error, !.returned = returned,
                     !.passedLimiter = passed, !.mfaVerified = verified]

Authorize(credentials, headers) ==
    LET clientIp == AuthClientIp(headers)
        c == Consume(rateLimiter, loginStore, clientIp, now,
                     isConnected /\ redisUp)
        found == FindByEmail(users, ToLowerCase(credentials.email))
        id == CHOOSE i \in found : TRUE
        user == users[id]
        verified == SpeakeasyVerify(credentials.mfaCode, user.mfaSecret, 2, now)
    IN  /\ UNCHANGED <<registrationStore, apiStore, mfaStore, isConnected,
                       redisUp, now>>
        /\ IF credentials.email = <<>> \/ credentials.password = ""
           THEN /\ UNCHANGED <<users, loginStore>>
                /\ auditRows' = <<>>
                /\ last' = AuthResult(credentials, Null, NoIp, Null, Null, FALSE, FALSE)
           ELSE IF ~c.resolved
           THEN /\ UNCHANGED users
                /\ loginStore' = c.store
                /\ auditRows' = LoginAudit(Null, clientIp, FALSE,
                                           "Rate limit exceeded")
                /\ last' = AuthResult(credentials, Null, clientIp, RateLimitedMsg, Null,
                                      FALSE, FALSE)
           ELSE /\ loginStore' = c.store
                /\ IF found = {}
                   THEN /\ UNCHANGED users
                        /\ auditRows' = LoginAudit(Null, clientIp, FALSE,
                                                   "User not found")
                        /\ last' = AuthResult(credentials, Null, clientIp, Null, Null,
                                              TRUE, FALSE)
                   ELSE IF user.isLocked
                   THEN /\ UNCHANGED users
                        /\ auditRows' = LoginAudit(id, clientIp, FALSE,
                                                   "Account locked")
                        /\ last' = AuthResult(credentials, id, clientIp, LockedMsg, Null,
                                              TRUE, FALSE)
                   ELSE IF ~user.isActive
                   THEN /\ UNCHANGED users
                        /\ auditRows' = LoginAudit(id, clientIp, FALSE,
                                                   "Account inactive")
                        /\ last' = AuthResult(credentials, id, clientIp, InactiveMsg, Null,
                                              TRUE, FALSE)
                   ELSE IF user.passwordHash = Null
                           \/ ~BcryptCompare(credentials.password,
                                             user.passwordHash)
                   THEN /\ users' = [users EXCEPT
                                        ![id] = FailedPasswordRow(user)]
                        /\ auditRows' = LoginAudit(id, clientIp, FALSE,
                                                   "Invalid password")
                        /\ last' = AuthResult(credentials, id, clientIp, Null, Null,
                                              TRUE, FALSE)
                   ELSE IF user.mfaEnabled /\ credentials.mfaCode = NoCode
                   THEN /\ UNCHANGED users
                        /\ auditRows' = <<>>
                        /\ last' = AuthResult(credentials, id, clientIp, Null, Null,
                                              TRUE, FALSE)
                   ELSE IF user.mfaEnabled /\ ~verified
                   THEN /\ UNCHANGED users
                        /\ auditRows' = LoginAudit(id, clientIp, FALSE,
                                                   "Invalid MFA code")
                        /\ last' = AuthResult(credentials, id, clientIp, Null, Null,
                                              TRUE, TRUE)
                   ELSE /\ users' = [users EXCEPT
                                        ![id] = SuccessfulLoginRow(
                                                    user, clientIp, now)]
                        /\ auditRows' = LoginAudit(id, clientIp, TRUE, Null)
                        /\ last' = AuthResult(credentials, id, clientIp, Null, id, TRUE,
                                              user.mfaEnabled)

----------------------------------------------------------------------------
(* Time passes; Redis expires the keys whose window is over. *)

Tick(step) ==
    /\ now + step <= MaxClock
    /\ now' = now + step
    /\ loginStore' = Expire(loginStore, now + step)
    /\ registrationStore' = Expire(registrationStore, now + step)
    /\ apiStore' = Expire(apiStore, now + step)
    /\ mfaStore' = Expire(mfaStore, now + step)
    /\ last' = [NoResult EXCEPT !.op = "tick"]
    /\ auditRows' = <<>>
    /\ UNCHANGED <<users, isConnected, redisUp>>

----------------------------------------------------------------------------
(* JavaScript values the middleware computes with. *)

JsNumber(n) == [type |-> "number", n |-> n]
JsUndefined == [type |-> "undefined", n |-> 0]
JsNaN == [type |-> "NaN", n |-> 0]

\* obj.name: undefined when the object has no such property
Prop(obj, name) ==
    IF name \in DOMAIN obj THEN JsNumber(obj[name]) ELSE JsUndefined

\* a || b for a number b
JsOr(a, b) == IF a.type = "number" /\ a.n # 0 THEN a ELSE JsNumber(b)

\* Date.now() + x
JsAdd(n, x) == IF x.type = "number" THEN JsNumber(n + x.n) ELSE JsNaN

\* mutant: an invalid date is formatted without an exception
ToISOStringThrows_Never(x) == FALSE

\* new Date(x).toISOString() throws a RangeError on an invalid date
ToISOStringThrows(x) == x.type # "number"

----------------------------------------------------------------------------
(* lib/rate-limiter.ts *)

\* ensureConnection: connects once; connect() throws while Redis is down.
EnsureConnection(connected, up) ==
    IF connected THEN [isConnected |-> TRUE, threw |-> FALSE]
    ELSE IF up THEN [isConnected |-> TRUE, threw |-> FALSE]
    ELSE [isConnected |-> FALSE, threw |-> TRUE]

\* what checkRateLimit returns, given how ensureConnection (e) and consume
\* (c) went: the try block's value, or the catch block's
RateLimitResult(e, c, store) ==
    LET rejRes == IF e.threw THEN RedisError ELSE c.value
    IN  IF ~e.threw /\ c.resolved
        THEN [store |-> c.store, isConnected |-> e.isConnected,
              allowed |-> TRUE, failed |-> FALSE,
              totalHits |-> Prop(c.value, "totalHits"),
              totalTime |-> Prop(c.value, "totalTime"),
              remainingPoints |-> Prop(c.value, "remainingPoints")]
        ELSE [store |-> IF e.threw THEN store ELSE c.store,
              isConnected |-> e.isConnected,
              allowed |-> FALSE, failed |-> rejRes = RedisError,
              totalHits |-> Prop(rejRes, "totalHits"),
              totalTime |-> Prop(rejRes, "totalTime"),
              remainingPoints |-> JsOr(Prop(rejRes, "remainingPoints"), 0)]

checkRateLimit(limiter, store, key, t, connected, up) ==
    RateLimitResult(EnsureConnection(connected, up),
                    Consume(limiter, store, key, t,
                            EnsureConnection(connected, up).isConnected /\ up),
                    store)

----------------------------------------------------------------------------
(* lib/security: the API middleware.  Each wrapper yields what it did      *)
(* before the handler: whether the handler runs, and the response and the  *)
(* audit entries when it does not.                                         *)

NoToken == [userId |-> Null, role |-> Null]

\* forwarded.split(',')[0].trim(), else x-real-ip, else x-remote-addr
GetClientIP(request) ==
    IF request.forwarded # NoHeader THEN <<Head(request.forwarded)>>
    ELSE IF request.real # NoHeader THEN request.real
    ELSE IF request.remote # NoHeader THEN request.remote
    ELSE Unknown

ApiAudit(userId, clientIP, errorMessage) ==
    <<AuditEntry(userId, "api_access", clientIP, FALSE, errorMessage)>>

\* withRateLimit after its checkRateLimit call, up to the call of the
\* handler
RateLimitGate(clientIP, rateLimit, t) ==
    LET reset == JsAdd(t * 1000, rateLimit.totalTime)
    IN  IF rateLimit.allowed
        THEN [store |-> rateLimit.store, isConnected |-> rateLimit.isConnected,
              allowed |-> TRUE, failed |-> FALSE, runs |-> TRUE, status |-> 0, error |-> Null,
              audit |-> <<>>]
        ELSE IF ToISOStringThrows(reset)
        THEN \* the catch block: continue without rate limiting
             [store |-> rateLimit.store, isConnected |-> rateLimit.isConnected,
              allowed |-> FALSE, failed |-> rateLimit.failed, runs |-> TRUE, status |-> 0, error |-> Null,
              audit |-> ApiAudit(Null, clientIP, "Rate limit exceeded")]
        ELSE [store |-> rateLimit.store, isConnected |-> rateLimit.isConnected,
              allowed |-> FALSE, failed |-> rateLimit.failed, runs |-> FALSE, status |-> 429,
              error |-> "Rate limit exceeded",
              audit |-> ApiAudit(Null, clientIP, "Rate limit exceeded")]

\* withRateLimit up to the call of the handler
WithRateLimit(request, store, t, connected, up) ==
    RateLimitGate(GetClientIP(request),
                  checkRateLimit(apiRateLimiter, store, GetClientIP(request),
                                 t, connected, up),
                  t)

\* mutant: any token passes, whatever its role
WithAuth_AnyRole(request, requiredRole) ==
    IF request.token = NoToken
    THEN [runs |-> FALSE, status |-> 401, error |-> "Authentication required",
          audit |-> <<>>]
    ELSE [runs |-> TRUE, status |-> 0, error |-> Null, audit |-> <<>>]

\* withAuth up to the call of the handler; getToken does not throw
WithAuth(request, requiredRole) ==
    IF request.token = NoToken
    THEN [runs |-> FALSE, status |-> 401, error |-> "Authentication required",
          audit |-> <<>>]
    ELSE IF requiredRole # Null /\ request.token.role # requiredRole
    THEN [runs |-> FALSE, status |-> 403, error |-> "Insufficient permissions",
          audit |-> ApiAudit(request.token.userId, GetClientIP(request),
                             "Insufficient permissions")]
    ELSE [runs |-> TRUE, status |-> 0, error |-> Null, audit |-> <<>>]

\* withAPIMiddleware's choice of wrappers, given what withRateLimit (rl)
\* did
Wrapped(request, options, rl, store, connected) ==
    LET needsAuth == options.requireAuth \/ options.requireRole # Null
        auth == IF needsAuth THEN WithAuth(request, options.requireRole)
                ELSE [runs |-> TRUE, status |-> 0, error |-> Null,
                      audit |-> <<>>]
        base == [store |-> store, isConnected |-> connected,
                 limited |-> FALSE, allowed |-> TRUE, failed |-> FALSE,
                 wrappedCalls |-> 0,
                 runs |-> FALSE, status |-> 200, error |-> Null,
                 audit |-> <<>>]
    IN  IF request.method = "OPTIONS" THEN base
        ELSE IF options.skipRateLimit
        THEN [base EXCEPT !.runs = auth.runs, !.status = auth.status,
                          !.error = auth.error, !.audit = auth.audit]
        ELSE IF ~rl.runs
        THEN [base EXCEPT !.store = rl.store, !.isConnected = rl.isConnected,
                          !.limited = TRUE, !.allowed = rl.allowed,
                          !.failed = rl.failed,
                          !.status = rl.status, !.error = rl.error,
                          !.audit = rl.audit]
        ELSE [base EXCEPT !.store = rl.store, !.isConnected = rl.isConnected,
                          !.limited = TRUE, !.allowed = rl.allowed,
                          !.failed = rl.failed, !.wrappedCalls = 1,
                          !.runs = auth.runs, !.status = auth.status,
                          !.error = auth.error,
                          !.audit = rl.audit \o auth.audit]

\* withAPIMiddleware up to the call of the route handler
WithAPIMiddleware(request, options, store, t, connected, up) ==
    Wrapped(request, options,
            WithRateLimit(request, store, t, connected, up), store, connected)

----------------------------------------------------------------------------
(* app/api/admin/users: POST /api/admin/users/[userId]/[action] *)

AdminOptions ==
    [requireAuth |-> TRUE, requireRole |-> "admin", skipRateLimit |-> FALSE]

\* mutant: unlock leaves the count of failed attempts as it was
UpdateData_KeepsAttempts(row, action) ==
    CASE action = "activate" -> [row EXCEPT !.isActive = TRUE]
      [] action = "deactivate" -> [row EXCEPT !.isActive = FALSE]
      [] action = "lock" ->
            [row EXCEPT !.isLocked = TRUE,
                        !.lockReason = "Locked by administrator"]
      [] action = "unlock" ->
            [row EXCEPT !.isLocked = FALSE, !.lockReason = Null]
      [] OTHER -> row

\* the switch over the action: the columns the update sets
UpdateData(row, action) ==
    CASE action = "activate" -> [row EXCEPT !.isActive = TRUE]
      [] action = "deactivate" -> [row EXCEPT !.isActive = FALSE]
      [] action = "lock" ->
            [row EXCEPT !.isLocked = TRUE,
                        !.lockReason = "Locked by administrator"]
      [] action = "unlock" ->
            [row EXCEPT !.isLocked = FALSE, !.lockReason = Null,
                        !.loginAttempts = 0]
      [] OTHER -> row

AdminActions == {"activate", "deactivate", "lock", "unlock"}

\* mutant: the check that the target is not the caller is missing
handleUserAction_NoSelfCheck(table, token, userId, action, clientIP) ==
    IF userId \notin DOMAIN table
    THEN [status |-> 404, error |-> "User not found", users |-> table,
          audit |-> <<>>]
    ELSE IF action \notin AdminActions
    THEN [status |-> 400, error |-> "Invalid action", users |-> table,
          audit |-> <<>>]
    ELSE [status |-> 200, error |-> Null,
          users |-> [table EXCEPT ![userId] = UpdateData(table[userId], action)],
          audit |-> <<AuditEntry(token.userId, "admin_action", clientIP, TRUE,
                                 Null)>>]

\* handleUserAction: the response, the table and the audit entries
handleUserAction(table, token, userId, action, clientIP) ==
    IF userId = token.userId
    THEN [status |-> 400, error |-> "Cannot modify your own account status",
          users |-> table, audit |-> <<>>]
    ELSE IF userId \notin DOMAIN table
    THEN [status |-> 404, error |-> "User not found", users |-> table,
          audit |-> <<>>]
    ELSE IF action \notin AdminActions
    THEN [status |-> 400, error |-> "Invalid action", users |-> table,
          audit |-> <<>>]
    ELSE [status |-> 200, error |-> Null,
          users |-> [table EXCEPT ![userId] = UpdateData(table[userId], action)],
          audit |-> <<AuditEntry(token.userId, "admin_action", clientIP, TRUE,
                                 Null)>>]

\* the effect of one POST: what the middleware (mw) did, and what the
\* handler (h) does when the middleware runs it
AdminRespond(request, userId, action, mw, h) ==
    /\ apiStore' = mw.store
    /\ isConnected' = mw.isConnected
    /\ users' = IF mw.runs THEN h.users ELSE users
    /\ auditRows' = IF mw.runs THEN mw.audit \o h.audit ELSE mw.audit
    /\ last' = [NoResult EXCEPT
                    !.op = "adminUserAction",
                    !.caller = request.token.userId,
                    !.role = request.token.role,
                    !.target = userId, !.action = action,
                    !.ip = GetClientIP(request),
                    !.status = IF mw.runs THEN h.status ELSE mw.status,
                    !.error = IF mw.runs THEN h.error ELSE mw.error,
                    !.passedLimiter = mw.allowed,
                    !.limiterError = mw.failed,
                    !.wrappedCalls = mw.wrappedCalls,
                    !.handlerCalls = IF mw.runs THEN 1 ELSE 0]
    /\ UNCHANGED <<loginStore, registrationStore, mfaStore, redisUp, now>>

AdminUserAction(request, userId, action) ==
    AdminRespond(request, userId, action,
                 WithAPIMiddleware(request, AdminOptions, apiStore, now,
                                   isConnected, redisUp),
                 handleUserAction(users, request.token, userId, action,
                                  GetClientIP(request)))

\* handleGetUsers: the list is read and the read is logged; the database
\* answers the select
handleGetUsers(table, token, clientIP) ==
    [status |-> 200, error |-> Null, users |-> table,
     audit |-> <<AuditEntry(token.userId, "admin_action", clientIP, TRUE,
                            Null)>>]

\* handleGetAuditStats: the statistics are read and the read is logged
handleGetAuditStats(table, token, clientIP) ==
    [status |-> 200, error |-> Null, users |-> table,
     audit |-> <<AuditEntry(token.userId, "admin_action", clientIP, TRUE,
                            Null)>>]

\* the effect of one admin GET: what the middleware (mw) did, and what the
\* handler (h) does when the middleware runs it
AdminGetRespond(op, request, mw, h) ==
    /\ apiStore' = mw.store
    /\ isConnected' = mw.isConnected
    /\ users' = IF mw.runs THEN h.users ELSE users
    /\ auditRows' = IF mw.runs THEN mw.audit \o h.audit ELSE mw.audit
    /\ last' = [NoResult EXCEPT
                    !.op = op,
                    !.caller = request.token.userId,
                    !.role = request.token.role,
                    !.ip = GetClientIP(request),
                    !.status = IF mw.runs THEN h.status ELSE mw.status,
                    !.error = IF mw.runs THEN h.error ELSE mw.error,
                    !.passedLimiter = mw.allowed,
                    !.limiterError = mw.failed,
                    !.wrappedCalls = mw.wrappedCalls,
                    !.handlerCalls = IF mw.runs THEN 1 ELSE 0]
    /\ UNCHANGED <<loginStore, registrationStore, mfaStore, redisUp, now>>

\* GET /api/admin/users
AdminListUsers(request) ==
    AdminGetRespond("adminListUsers", request,
                    WithAPIMiddleware(request, AdminOptions, apiStore, now,
                                      isConnected, redisUp),
                    handleGetUsers(users, request.token,
                                   GetClientIP(request)))

\* GET /api/admin/audit/stats
AdminAuditStats(request) ==
    AdminGetRespond("adminAuditStats", request,
                    WithAPIMiddleware(request, AdminOptions, apiStore, now,
                                      isConnected, redisUp),
                    handleGetAuditStats(users, request.token,
                                        GetClientIP(request)))

----------------------------------------------------------------------------
(* lib/mfa: MFAService *)

NoArg == 0 - 1

\* a parameter with a default value
Default(arg, value) == IF arg = NoArg THEN value ELSE arg

\* Math.random().toString(36) is "0." and the base-36 digits of the
\* fraction; substring(2, 10) keeps at most the first 8 of them.
Substring(str, from, to) ==
    IF from >= Len(str) THEN <<>>
    ELSE SubSeq(str, from + 1, IF to < Len(str) THEN to ELSE Len(str))

UpperChar(c) ==
    CASE c = "a" -> "A"
      [] c = "i" -> "I"
      [] c = "k" -> "K"
      [] c = "z" -> "Z"
      [] OTHER -> c

ToUpperCase(str) == [i \in 1..Len(str) |-> UpperChar(str[i])]

\* one round of the loop: the code made from one random number
BackupCode(random) == ToUpperCase(Substring(random, 2, 10))

DefaultCount == 8

\* generateBackupCodes(count = 8), given the random numbers it draws
generateBackupCodes(count, randoms) ==
    [i \in 1..Default(count, DefaultCount) |-> BackupCode(randoms[i])]

\* mutant: the default window is one period
verifyToken_WindowOne(token, secret, window, t) ==
    SpeakeasyVerify(token, secret, Default(window, 1), t)

\* verifyToken(token, secret, window = 2)
verifyToken(token, secret, window, t) ==
    SpeakeasyVerify(token, secret, Default(window, 2), t)

MfaAudit(userId, action, clientIP, success, errorMessage) ==
    <<AuditEntry(userId, action, clientIP, success, errorMessage)>>

\* enableMFA(userId, secret, token, ipAddress)
enableMFA(table, userId, secret, token, clientIP, t, randoms) ==
    IF ~verifyToken(token, secret, NoArg, t)
    THEN [success |-> FALSE, error |-> "Invalid MFA token", users |-> table,
          verified |-> TRUE,
          audit |-> MfaAudit(userId, "mfa_enable", clientIP, FALSE,
                             "Invalid MFA token")]
    ELSE [success |-> TRUE, error |-> Null,
          users |-> [id \in DOMAIN table |->
                        IF id = userId
                        THEN [table[id] EXCEPT
                                !.mfaEnabled = TRUE, !.mfaSecret = secret,
                                !.mfaBackupCodes =
                                    generateBackupCodes(NoArg, randoms)]
                        ELSE table[id]],
          verified |-> TRUE,
          audit |-> MfaAudit(userId, "mfa_enable", clientIP, TRUE, Null)]

\* the guard of disableMFA and regenerateBackupCodes
MfaNotEnabled(table, userId) ==
    \/ userId \notin DOMAIN table
    \/ ~table[userId].mfaEnabled
    \/ table[userId].mfaSecret = NoSecret

\* disableMFA(userId, token, ipAddress)
disableMFA(table, userId, token, clientIP, t) ==
    IF MfaNotEnabled(table, userId)
    THEN [success |-> FALSE, error |-> "MFA is not enabled for this user",
          users |-> table, verified |-> FALSE, audit |-> <<>>]
    ELSE IF ~verifyToken(token, table[userId].mfaSecret, NoArg, t)
    THEN [success |-> FALSE, error |-> "Invalid MFA token", users |-> table,
          verified |-> TRUE,
          audit |-> MfaAudit(userId, "mfa_disable", clientIP, FALSE,
                             "Invalid MFA token")]
    ELSE [success |-> TRUE, error |-> Null,
          users |-> [table EXCEPT ![userId] =
                        [@ EXCEPT !.mfaEnabled = FALSE,
                                  !.mfaSecret = NoSecret,
                                  !.mfaBackupCodes = <<>>]],
          verified |-> TRUE,
          audit |-> MfaAudit(userId, "mfa_disable", clientIP, TRUE, Null)]

\* regenerateBackupCodes(userId, token, ipAddress)
regenerateBackupCodes(table, userId, token, clientIP, t, randoms) ==
    IF MfaNotEnabled(table, userId)
    THEN [success |-> FALSE, error |-> "MFA is not enabled for this user",
          users |-> table, verified |-> FALSE, audit |-> <<>>]
    ELSE IF ~verifyToken(token, table[userId].mfaSecret, NoArg, t)
    THEN [success |-> FALSE, error |-> "Invalid MFA token", users |-> table,
          verified |-> TRUE, audit |-> <<>>]
    ELSE [success |-> TRUE, error |-> Null,
          users |-> [table EXCEPT ![userId] =
                        [@ EXCEPT !.mfaBackupCodes =
                                    generateBackupCodes(NoArg, randoms)]],
          verified |-> TRUE,
          audit |-> MfaAudit(userId, "admin_action", clientIP, TRUE, Null)]

\* the requests that may call verifyBackupCode at once
Callers == {"r1", "r2", "r3"}

NoCall ==
    [pc |-> "idle", userId |-> Null, backupCode |-> <<>>,
     backupCodes |-> <<>>, codeIndex |-> 0 - 1, success |-> FALSE,
     error |-> Null]

\* Array.prototype.indexOf: the first position of x, from 0, or -1
IndexOf(list, x) ==
    IF \E i \in 1..Len(list) : list[i] = x
    THEN (CHOOSE i \in 1..Len(list) :
             /\ list[i] = x
             /\ \A j \in 1..(i - 1) : list[j] # x) - 1
    ELSE 0 - 1

\* list.splice(index, 1): the list without the element at index
Splice(list, index) ==
    SubSeq(list, 1, index) \o SubSeq(list, index + 2, Len(list))

Returned(call, success, error) ==
    [call EXCEPT !.pc = "done", !.success = success, !.error = error]

\* verifyBackupCode(userId, backupCode, ipAddress), up to its db.update:
\* the select, the two guards, indexOf and splice on the array it read.
\* mfaBackupCodes is null exactly when MFA is not enabled (enableMFA and
\* disableMFA set both columns together), and <<>> stands for null and [].
\* The database answers every query, so the catch is not reached.
verifyBackupCode_Select(p, userId, backupCode, ipAddress) ==
    LET call == [NoCall EXCEPT !.userId = userId, !.backupCode = backupCode]
        backupCodes == users[userId].mfaBackupCodes
        codeIndex == IndexOf(backupCodes, backupCode)
    IN  /\ calls[p].pc = "idle"
        /\ IF userId \notin DOMAIN users \/ ~users[userId].mfaEnabled
           THEN /\ calls' = [calls EXCEPT
                                ![p] = Returned(call, FALSE,
                                                "Invalid backup code")]
                /\ auditRows' = <<>>
           ELSE IF codeIndex = 0 - 1
           THEN /\ calls' = [calls EXCEPT
                                ![p] = Returned(call, FALSE,
                                                "Invalid backup code")]
                /\ auditRows' = MfaAudit(userId, "login", ipAddress, FALSE,
                                         "Invalid backup code")
           ELSE /\ calls' = [calls EXCEPT
                                ![p] = [call EXCEPT
                                          !.pc = "update",
                                          !.codeIndex = codeIndex,
                                          !.backupCodes =
                                              Splice(backupCodes, codeIndex)]]
                /\ auditRows' = <<>>
        /\ Logged
        /\ UNCHANGED <<users, loginStore, registrationStore, apiStore, mfaStore, isConnected,
                       redisUp, now, last, mfaTries, page, issued, probe>>

\* verifyBackupCode from its db.update on: the array it spliced is stored,
\* the use is logged and success is returned.
verifyBackupCode_Update(p, ipAddress) ==
    /\ calls[p].pc = "update"
    /\ users' = [users EXCEPT
                    ![calls[p].userId].mfaBackupCodes = calls[p].backupCodes]
    /\ auditRows' = MfaAudit(calls[p].userId, "login", ipAddress, TRUE, Null)
    /\ calls' = [calls EXCEPT ![p] = Returned(calls[p], TRUE, Null)]
    /\ Logged
    /\ UNCHANGED <<loginStore, registrationStore, apiStore, mfaStore, isConnected, redisUp, now,
                   last, mfaTries, page, issued, probe>>

----------------------------------------------------------------------------
(* app/api/mfa/[action]: POST enable, disable, regenerate-backup-codes *)

MfaOptions ==
    [requireAuth |-> TRUE, requireRole |-> Null, skipRateLimit |-> FALSE]

\* z.string().length(6): a token of six digits
SixDigits(token) == token >= 0 /\ token < TotpModulus

BadRequest(table, error) ==
    [success |-> FALSE, error |-> error, users |-> table, verified |-> FALSE,
     audit |-> <<>>]

\* the handler of an action, on the parsed body
MfaHandler(action, table, userId, body, clientIP, t, randoms) ==
    IF ~SixDigits(body.token)
    THEN BadRequest(table, "Invalid token format")
    ELSE IF action = "enable"
    THEN IF body.secret = NoSecret
         THEN BadRequest(table, "MFA secret is required")
         ELSE enableMFA(table, userId, body.secret, body.token, clientIP, t,
                        randoms)
    ELSE IF action = "disable"
    THEN disableMFA(table, userId, body.token, clientIP, t)
    ELSE regenerateBackupCodes(table, userId, body.token, clientIP, t,
                               randoms)

\* the effect of one POST: what the middleware (mw) did, and what the
\* handler (h) does when the middleware runs it
MfaRespond(request, action, body, mw, h) ==
        /\ action \in {"enable", "disable", "regenerate-backup-codes"}
        /\ apiStore' = mw.store
        /\ isConnected' = mw.isConnected
        /\ users' = IF mw.runs THEN h.users ELSE users
        /\ auditRows' = IF mw.runs THEN mw.audit \o h.audit ELSE mw.audit
        /\ last' = [NoResult EXCEPT
                        !.op = "mfa",
                        !.caller = request.token.userId,
                        !.role = request.token.role,
                        !.target = request.token.userId,
                        !.action = action,
                        !.credentials = [NoCredentials EXCEPT
                                            !.mfaCode = body.token],
                        !.ip = GetClientIP(request),
                        !.status = IF ~mw.runs THEN mw.status
                                   ELSE IF h.success THEN 200 ELSE 400,
                        !.error = IF mw.runs THEN h.error ELSE mw.error,
                        !.passedLimiter = mw.allowed,
                        !.limiterError = mw.failed,
                        !.mfaVerified = mw.runs /\ h.verified,
                        !.wrappedCalls = mw.wrappedCalls,
                        !.handlerCalls = IF mw.runs THEN 1 ELSE 0]
        /\ UNCHANGED <<loginStore, registrationStore, mfaStore, redisUp, now>>

MfaRoute(request, action, body, randoms) ==
    MfaRespond(request, action, body,
               WithAPIMiddleware(request, MfaOptions, apiStore, now,
                                 isConnected, redisUp),
               MfaHandler(action, users, request.token.userId, body,
                          GetClientIP(request), now, randoms))

\* generateSecret: a fresh random secret (drawn); nothing is stored
generateSecret(userId, userEmail, drawn) ==
    [secret |-> drawn, manualEntryKey |-> drawn]

\* handleGenerateSecret
handleGenerateSecret(table, userId, drawn) ==
    IF userId \notin DOMAIN table
    THEN [status |-> 404, error |-> "User not found", secret |-> NoSecret]
    ELSE [status |-> 200, error |-> Null,
          secret |-> generateSecret(userId, table[userId].email,
                                    drawn).secret]

\* the effect of GET generate-secret: what the middleware (mw) did and
\* what the handler (h) answers; the response is kept in probe
GenerateSecretRespond(request, mw, h) ==
    /\ apiStore' = mw.store
    /\ isConnected' = mw.isConnected
    /\ auditRows' = mw.audit
    /\ probe' = [method |-> "generate-secret",
                 status |-> IF mw.runs THEN h.status ELSE mw.status,
                 secret |-> IF mw.runs THEN h.secret ELSE NoSecret]
    /\ issued' = IF mw.runs /\ h.status = 200
                 THEN issued \cup {<<request.token.userId, h.secret>>}
                 ELSE issued
    /\ last' = [NoResult EXCEPT
                    !.op = "mfa",
                    !.caller = request.token.userId,
                    !.role = request.token.role,
                    !.target = request.token.userId,
                    !.action = "generate-secret",
                    !.ip = GetClientIP(request),
                    !.status = IF mw.runs THEN h.status ELSE mw.status,
                    !.error = IF mw.runs THEN h.error ELSE mw.error,
                    !.passedLimiter = mw.allowed,
                    !.limiterError = mw.failed,
                    !.wrappedCalls = mw.wrappedCalls,
                    !.handlerCalls = IF mw.runs THEN 1 ELSE 0]
    /\ Logged
    /\ UNCHANGED <<users, loginStore, registrationStore, mfaStore, redisUp,
                   now, mfaTries, calls, page>>

MfaGenerateSecret(request, drawn) ==
    GenerateSecretRespond(request,
                          WithAPIMiddleware(request, MfaOptions, apiStore,
                                            now, isConnected, redisUp),
                          handleGenerateSecret(users, request.token.userId,
                                               drawn))

----------------------------------------------------------------------------
(* The environment: the Redis server goes down and comes back. *)

RedisDown ==
    /\ redisUp
    /\ redisUp' = FALSE
    /\ last' = [NoResult EXCEPT !.op = "redisDown"]
    /\ auditRows' = <<>>
    /\ UNCHANGED <<users, loginStore, registrationStore, apiStore, mfaStore, isConnected, now>>

RedisBack ==
    /\ ~redisUp
    /\ redisUp' = TRUE
    /\ last' = [NoResult EXCEPT !.op = "redisBack"]
    /\ auditRows' = <<>>
    /\ UNCHANGED <<users, loginStore, registrationStore, apiStore, mfaStore, isConnected, now>>

----------------------------------------------------------------------------
(* app/api/profile: GET and PATCH.  The response is kept in probe.         *)

NoSession == [userId |-> Null, email |-> <<>>]

\* const { a, b, ...rest } = obj: the properties of obj other than a and b
Omit(obj, keys) == [k \in DOMAIN obj \ keys |-> obj[k]]

\* const { password, mfaSecret, ...userProfile } = user;
\* { ...userProfile, mfaEnabled: !!user.mfaSecret }
ProfileUser(user) ==
    [Omit(user, {"password", "mfaSecret"}) EXCEPT
        !.mfaEnabled = user.mfaSecret # NoSecret]

profileGET(table, session) ==
    IF session.userId = Null
    THEN [status |-> 401, error |-> "Unauthorized", user |-> <<>>]
    ELSE IF session.userId \notin DOMAIN table
    THEN [status |-> 404, error |-> "User not found", user |-> <<>>]
    ELSE [status |-> 200, error |-> Null,
          user |-> ProfileUser(table[session.userId])]

\* PATCH with a body that passes updateProfileSchema.  The rows of the
\* model carry no name, emailVerified or updatedAt.  logAuditEvent is
\* imported from lib/audit, which does not define it in the source at
\* hand: `exported` says whether the build provides it; if not, the call
\* throws after the update and the catch answers 500.
profilePATCH(table, session, email, exported) ==
    IF session.userId = Null
    THEN [status |-> 401, error |-> "Unauthorized", user |-> <<>>,
          users |-> table, audit |-> <<>>]
    ELSE IF /\ email # session.email
            /\ \E id \in DOMAIN table :
                  table[id].email = email /\ id # session.userId
    THEN [status |-> 400, error |-> "Email address is already in use",
          user |-> <<>>, users |-> table, audit |-> <<>>]
    ELSE IF session.userId \notin DOMAIN table
    THEN [status |-> 500, error |-> "Failed to update profile",
          user |-> <<>>, users |-> table, audit |-> <<>>]
    ELSE IF \E id \in DOMAIN table :
                table[id].email = email /\ id # session.userId
    THEN \* the update violates the unique index on users.email and throws
         [status |-> 500, error |-> "Internal server error", user |-> <<>>,
          users |-> table, audit |-> <<>>]
    ELSE IF ~exported
    THEN [status |-> 500, error |-> "Internal server error", user |-> <<>>,
          users |-> [table EXCEPT ![session.userId].email = email],
          audit |-> <<>>]
    ELSE [status |-> 200, error |-> Null,
          user |-> ProfileUser([table[session.userId] EXCEPT
                                   !.email = email]),
          users |-> [table EXCEPT ![session.userId].email = email],
          audit |-> <<AuditEntry(session.userId, "profile_updated",
                                 Unknown, TRUE, Null)>>]

ProfileResponse(method, r) ==
    [method |-> method, status |-> r.status, error |-> r.error,
     user |-> r.user]

ProfileGet(session) ==
    /\ probe' = ProfileResponse("profileGet", profileGET(users, session))
    /\ UNCHANGED <<users, loginStore, registrationStore, apiStore, mfaStore, isConnected,
                   redisUp, now, last, auditRows, mfaTries, page, issued, calls, auditDbUp,
                   fallbackRows>>

ProfilePatchRespond(r) ==
    /\ probe' = ProfileResponse("profilePatch", r)
    /\ users' = r.users
    /\ auditRows' = r.audit
    /\ Logged
    /\ UNCHANGED <<loginStore, registrationStore, apiStore, mfaStore, isConnected, redisUp, now,
                   last, mfaTries, page, issued, calls>>

ProfilePatch(session, email, exported) ==
    ProfilePatchRespond(profilePATCH(users, session, email, exported))

----------------------------------------------------------------------------
(* app/api/health and healthcheck.js.  The response is kept in probe.      *)

HealthOptions ==
    [requireAuth |-> FALSE, requireRole |-> Null, skipRateLimit |-> TRUE]

\* checkDatabase: SELECT 1 succeeds or throws; a throw is caught
checkDatabase(selectSucceeds) == selectSucceeds

\* checkRedis: redisClient.ping() on the client of the rate limiter; the
\* command is rejected when the client was never connected or the server
\* is down, and the rejection is caught
checkRedis(connected, up) == connected /\ up

\* mutant: one healthy dependency is enough
healthHandler_Either(dbHealthy, redisHealthy) ==
    [status |-> IF dbHealthy \/ redisHealthy THEN 200 ELSE 503,
     database |-> dbHealthy, redis |-> redisHealthy]

\* handler: the status of the response and the services it reports
healthHandler(dbHealthy, redisHealthy) ==
    [status |-> IF dbHealthy /\ redisHealthy THEN 200 ELSE 503,
     database |-> dbHealthy, redis |-> redisHealthy]

\* the effect of GET /api/health: what the middleware (mw) did and what
\* the handler (h) answered
HealthRespond(method, event, request, mw, h) ==
    /\ apiStore' = mw.store
    /\ isConnected' = mw.isConnected
    /\ probe' = [method |-> method, event |-> event,
                 status |-> IF mw.runs THEN h.status ELSE mw.status,
                 database |-> h.database, redis |-> h.redis,
                 exit |-> IF (IF mw.runs THEN h.status ELSE mw.status) = 200
                          THEN 0 ELSE 1]
    /\ last' = [NoResult EXCEPT
                    !.op = method,
                    !.ip = GetClientIP(request),
                    !.status = IF mw.runs THEN h.status ELSE mw.status,
                    !.passedLimiter = mw.allowed,
                    !.wrappedCalls = mw.wrappedCalls,
                    !.handlerCalls = IF mw.runs THEN 1 ELSE 0]
    /\ auditRows' = mw.audit
    /\ Logged
    /\ UNCHANGED <<users, loginStore, registrationStore, mfaStore, redisUp, now, mfaTries, page, issued,
                   calls>>

\* GET /api/health
HealthGet(request, selectSucceeds) ==
    HealthRespond("healthGet", "response", request,
                  WithAPIMiddleware(request, HealthOptions, apiStore, now,
                                    isConnected, redisUp),
                  healthHandler(checkDatabase(selectSucceeds),
                                checkRedis(isConnected, redisUp)))

LocalRequest ==
    [method |-> "GET", forwarded |-> NoHeader, real |-> NoHeader,
     remote |-> NoHeader, token |-> NoToken]

\* healthcheck.js: the request gets a response, and the script exits 0 on
\* status 200 and 1 on any other; or it gets an error or times out, and
\* the script exits 1
Healthcheck(event, selectSucceeds) ==
    IF event = "response"
    THEN HealthRespond("healthcheck", event, LocalRequest,
                       WithAPIMiddleware(LocalRequest, HealthOptions,
                                         apiStore, now, isConnected,
                                         redisUp),
                       healthHandler(checkDatabase(selectSucceeds),
                                     checkRedis(isConnected, redisUp)))
    ELSE /\ probe' = [method |-> "healthcheck", event |-> event,
                      status |-> 0, database |-> FALSE, redis |-> FALSE,
                      exit |-> 1]
         /\ last' = [NoResult EXCEPT !.op = "healthcheck"]
         /\ auditRows' = <<>>
         /\ Logged
         /\ UNCHANGED <<users, loginStore, registrationStore, apiStore, mfaStore, isConnected,
                        redisUp, now, mfaTries, page, issued, calls>>

----------------------------------------------------------------------------
(* app/api/auth/register: POST.  The handler awaits the select of the      *)
(* existing user and then the insert; requests in flight are kept in       *)
(* calls, and another request may run between the two.                     *)

RegisterOptions ==
    [requireAuth |-> FALSE, requireRole |-> Null, skipRateLimit |-> FALSE]

\* the ids the database draws for new rows (defaultRandom)
NewIds == {"id-new1", "id-new2"}

EmailChars == {"a", "u", "n", "x", "A", "U", "N", "X"}

\* z.string().email(): one @ between two non-empty parts of address
\* characters
ZodEmail(email) ==
    /\ Len(email) >= 3
    /\ Cardinality({i \in 1..Len(email) : email[i] = "@"}) = 1
    /\ email[1] # "@" /\ email[Len(email)] # "@"
    /\ \A i \in 1..Len(email) : email[i] \in EmailChars \cup {"@"}

\* the passwords tried: what z.string().min(8) and validatePassword find
\* in each
TooShort == "New#1"
NoSpecial == "Newpass2024"
NewPassword == "New#2024"

ZodPassword(password) == password # TooShort

validatePassword(password) ==
    [valid |-> password \notin {TooShort, NoSpecial}]

RECURSIVE TrimStart(_)
TrimStart(s) ==
    IF s # <<>> /\ Head(s) = " " THEN TrimStart(Tail(s)) ELSE s

RECURSIVE TrimEnd(_)
TrimEnd(s) ==
    IF s # <<>> /\ s[Len(s)] = " "
    THEN TrimEnd(SubSeq(s, 1, Len(s) - 1)) ELSE s

\* sanitizeInput: drops < and >, trims, keeps the first 1000 characters
sanitizeInput(input) ==
    LET kept(c) == c \notin {"<", ">"}
        trimmed == TrimEnd(TrimStart(SelectSeq(input, kept)))
    IN  SubSeq(trimmed, 1, IF Len(trimmed) < 1000 THEN Len(trimmed) ELSE 1000)

\* the row an insert of email and passwordHash creates: role and isActive
\* as the handler passes them, the other columns by their defaults
InsertedUser(email, passwordHash) ==
    [email |-> email, passwordHash |-> passwordHash, role |-> "user",
     isActive |-> TRUE, isLocked |-> FALSE, lockReason |-> Null,
     loginAttempts |-> 0, lastLoginAt |-> NoTime, lastLoginIp |-> NoIp,
     mfaEnabled |-> FALSE, mfaSecret |-> NoSecret, mfaBackupCodes |-> <<>>]

RegisterAudit(userId, clientIP, success, errorMessage) ==
    <<AuditEntry(userId, "register", clientIP, success, errorMessage)>>

NoRegistration ==
    [pc |-> "idle", ip |-> NoIp, email |-> <<>>, passwordHash |-> <<>>,
     status |-> 0, error |-> Null, userId |-> Null]

Answered(call, status, error) ==
    [call EXCEPT !.pc = "done", !.status = status, !.error = error]

\* mutant: the handler does not look for an existing user
ExistingUser_None(table, email) == {}

\* select from users where email = sanitizedEmail
ExistingUser(table, email) == {id \in DOMAIN table : table[id].email = email}

\* the handler up to its insert, given what the middleware (mw) and the
\* registration limiter (rateLimit) did: the call as it stands after the
\* step and the audit entries written
registerSelect(table, clientIP, body, mw, rateLimit) ==
    LET call == [NoRegistration EXCEPT !.ip = clientIP]
        sanitizedEmail == sanitizeInput(ToLowerCase(body.email))
    IN  IF ~mw.runs
        THEN [call |-> Answered(call, mw.status, mw.error), audit |-> <<>>]
        ELSE IF ~rateLimit.allowed
        THEN [call |-> Answered(call, 429,
                  "Too many registration attempts. Please try again later."),
              audit |-> RegisterAudit(Null, clientIP, FALSE,
                                      "Registration rate limit exceeded")]
        ELSE IF ~ZodEmail(body.email) \/ ~ZodPassword(body.password)
        THEN [call |-> Answered(call, 400, "Validation failed"),
              audit |-> <<>>]
        ELSE IF ~validatePassword(body.password).valid
        THEN [call |-> Answered(call, 400,
                                "Password does not meet requirements"),
              audit |-> <<>>]
        ELSE IF ExistingUser(table, sanitizedEmail) # {}
        THEN [call |-> Answered(call, 409,
                                "An account with this email already exists"),
              audit |-> RegisterAudit(Null, clientIP, FALSE,
                                      "Email already registered")]
        ELSE [call |-> [call EXCEPT !.pc = "insert",
                                    !.email = sanitizedEmail,
                                    !.passwordHash =
                                        BcryptHash(body.password)],
              audit |-> <<>>]

RegisterBegun(p, request, mw, rateLimit, r) ==
    /\ calls' = [calls EXCEPT ![p] = r.call]
    /\ apiStore' = mw.store
    /\ registrationStore' = IF mw.runs THEN rateLimit.store
                            ELSE registrationStore
    /\ isConnected' = IF mw.runs THEN rateLimit.isConnected
                      ELSE mw.isConnected
    /\ auditRows' = mw.audit \o r.audit
    /\ last' = [NoResult EXCEPT
                    !.op = "register", !.caller = p,
                    !.ip = GetClientIP(request),
                    !.credentials = [NoCredentials EXCEPT
                                        !.email = request.body.email,
                                        !.password = request.body.password],
                    !.status = r.call.status, !.error = r.call.error,
                    !.passedLimiter = mw.runs /\ rateLimit.allowed,
                    !.handlerCalls = IF mw.runs THEN 1 ELSE 0]
    /\ Logged
    /\ UNCHANGED <<users, loginStore, mfaStore, redisUp, now, mfaTries, page, issued,
                   probe>>

RegisterSelected(p, request, mw, rateLimit) ==
    RegisterBegun(p, request, mw, rateLimit,
                  registerSelect(users, GetClientIP(request), request.body,
                                 mw, rateLimit))

RegisterLimited(p, request, mw) ==
    RegisterSelected(p, request, mw,
                     checkRateLimit(registrationRateLimiter,
                                    registrationStore, GetClientIP(request),
                                    now, mw.isConnected, redisUp))

\* POST /api/auth/register, up to the insert
Register_Select(p, request) ==
    /\ calls[p].pc \in {"idle", "done"}
    /\ RegisterLimited(p, request,
                       WithAPIMiddleware(request, RegisterOptions, apiStore,
                                         now, isConnected, redisUp))

\* mutant: users.email has no unique index
registerInsert_NoUniqueIndex(table, call) ==
    LET id == CHOOSE i \in NewIds : i \notin DOMAIN table
    IN  [users |-> (id :> InsertedUser(call.email, call.passwordHash))
                       @@ table,
         call |-> [Answered(call, 201, Null) EXCEPT !.userId = id],
         audit |-> RegisterAudit(id, call.ip, TRUE, Null)]

\* the insert: the unique index on users.email rejects a second row with
\* the email, the insert throws and the catch answers 500
registerInsert(table, call) ==
    LET id == CHOOSE i \in NewIds : i \notin DOMAIN table
    IN  IF \E i \in DOMAIN table : table[i].email = call.email
        THEN [users |-> table,
              call |-> Answered(call, 500,
                                "Registration failed. Please try again."),
              audit |-> RegisterAudit(Null, call.ip, FALSE,
                                      "duplicate key value")]
        ELSE [users |-> (id :> InsertedUser(call.email, call.passwordHash))
                            @@ table,
              call |-> [Answered(call, 201, Null) EXCEPT !.userId = id],
              audit |-> RegisterAudit(id, call.ip, TRUE, Null)]

RegisterInserted(p, r) ==
    /\ users' = r.users
    /\ calls' = [calls EXCEPT ![p] = r.call]
    /\ auditRows' = r.audit
    /\ last' = [NoResult EXCEPT
                    !.op = "register", !.caller = p, !.ip = r.call.ip,
                    !.target = r.call.userId,
                    !.status = r.call.status, !.error = r.call.error,
                    !.passedLimiter = TRUE, !.handlerCalls = 1]
    /\ Logged
    /\ UNCHANGED <<loginStore, registrationStore, apiStore, mfaStore,
                   isConnected, redisUp, now, mfaTries, page, issued, probe>>

\* POST /api/auth/register, from the insert on
Register_Insert(p) ==
    /\ calls[p].pc = "insert"
    /\ \E i \in NewIds : i \notin DOMAIN users
    /\ RegisterInserted(p, registerInsert(users, calls[p]))

----------------------------------------------------------------------------
(* lib/rate-limiter.ts, one await at a time: requests that call            *)
(* checkRateLimit, getRateLimitInfo or resetRateLimit at once.  A call in  *)
(* flight is kept in calls; connectInvoked says that the call has invoked  *)
(* redisClient.connect().                                                  *)

LimiterOps == {"checkRateLimit", "getRateLimitInfo", "resetRateLimit"}

NoLimiterCall ==
    [pc |-> "idle", op |-> Null, key |-> NoIp, connectInvoked |-> FALSE,
     connectRejected |-> FALSE, allowed |-> FALSE, info |-> Null]

\* the calls that have invoked redisClient.connect()
Connecting(cs) ==
    {q \in DOMAIN cs : cs[q].pc # "idle" /\ cs[q].connectInvoked}

\* what the function returns when ensureConnection throws: the catch
\* block of each
ConnectFailed(call) ==
    [call EXCEPT !.pc = "done", !.connectRejected = TRUE,
                 !.allowed = FALSE, !.info = Null]

\* ensureConnection up to its await: the flag is read, and connect() is
\* invoked when it is not set.  On a client that is already connecting or
\* connected, connect() rejects or resolves (accepted).
ensureConnection_Test(p, op, key, accepted) ==
    LET call == [NoLimiterCall EXCEPT !.op = op, !.key = key]
        invoked == [call EXCEPT !.connectInvoked = TRUE]
    IN  /\ calls[p].pc = "idle"
        /\ calls' = [calls EXCEPT ![p] =
                        IF isConnected
                        THEN [call EXCEPT !.pc = "command"]
                        ELSE IF Connecting(calls) = {} \/ accepted
                        THEN [invoked EXCEPT !.pc = "connecting"]
                        ELSE ConnectFailed(invoked)]
        /\ last' = [NoResult EXCEPT !.op = op, !.caller = p, !.ip = key]
        /\ auditRows' = <<>>
        /\ Logged
        /\ UNCHANGED <<users, loginStore, registrationStore, apiStore,
                       mfaStore, isConnected, redisUp, now, mfaTries, probe,
                       page, issued>>

\* ensureConnection after its await: connect() has resolved
ensureConnection_Set(p) ==
    /\ calls[p].pc = "connecting"
    /\ isConnected' = TRUE
    /\ calls' = [calls EXCEPT ![p].pc = "command"]
    /\ last' = [NoResult EXCEPT !.op = calls[p].op, !.caller = p,
                                !.ip = calls[p].key]
    /\ auditRows' = <<>>
    /\ Logged
    /\ UNCHANGED <<users, loginStore, registrationStore, apiStore, mfaStore,
                   redisUp, now, mfaTries, probe, page, issued>>

\* limiter.get(key): the key's record, or null when there is none
LimiterGet(limiter, store, key, t) ==
    IF store[key] = NoKey THEN Null
    ELSE RateLimiterRes(limiter, store[key], t)

\* the limiter command of the call (c is what consume does) and the value
\* the function returns
LimiterCommand(p, limiter, c) ==
    /\ calls[p].pc = "command"
    /\ apiStore' =
          CASE calls[p].op = "checkRateLimit" -> c.store
            [] calls[p].op = "getRateLimitInfo" -> apiStore
            [] calls[p].op = "resetRateLimit" ->
                  [apiStore EXCEPT ![calls[p].key] = NoKey]
    /\ calls' = [calls EXCEPT ![p] =
                    [calls[p] EXCEPT
                        !.pc = "done",
                        !.allowed = calls[p].op = "checkRateLimit"
                                    /\ c.resolved,
                        !.info = IF calls[p].op = "getRateLimitInfo"
                                 THEN LimiterGet(limiter, apiStore,
                                                 calls[p].key, now)
                                 ELSE Null]]
    /\ last' = [NoResult EXCEPT !.op = calls[p].op, !.caller = p,
                                !.ip = calls[p].key]
    /\ auditRows' = <<>>
    /\ Logged
    /\ UNCHANGED <<users, loginStore, registrationStore, mfaStore,
                   isConnected, redisUp, now, mfaTries, probe, page, issued>>

Limiter_Command(p) ==
    /\ calls[p].pc = "command"
    /\ LimiterCommand(p, apiRateLimiter,
                      Consume(apiRateLimiter, apiStore, calls[p].key, now,
                              redisUp))

----------------------------------------------------------------------------
\* inserts into audit_logs start to fail, and succeed again
AuditDbDown ==
    /\ auditDbUp
    /\ auditDbUp' = FALSE
    /\ last' = [NoResult EXCEPT !.op = "auditDbDown"]
    /\ auditRows' = <<>>
    /\ fallbackRows' = <<>>
    /\ UNCHANGED <<users, loginStore, registrationStore, apiStore, mfaStore, isConnected,
                   redisUp, now, mfaTries, page, issued, calls, probe>>

AuditDbBack ==
    /\ ~auditDbUp
    /\ auditDbUp' = TRUE
    /\ last' = [NoResult EXCEPT !.op = "auditDbBack"]
    /\ auditRows' = <<>>
    /\ fallbackRows' = <<>>
    /\ UNCHANGED <<users, loginStore, registrationStore, apiStore, mfaStore, isConnected,
                   redisUp, now, mfaTries, page, issued, calls, probe>>

----------------------------------------------------------------------------
(* app/auth/signin: the sign-in page. *)

\* the state of a page just loaded (useState)
SignInPage ==
    [formData |-> NoCredentials, formError |-> "", requiresMFA |-> FALSE,
     pushed |-> FALSE]

MfaPrompt == "Please enter your 6-digit authentication code."

\* what signIn('credentials', {redirect: false}) resolves with: the url
\* when authorize returned a user, the message of the error authorize
\* threw, and 'CredentialsSignin' when authorize returned null
NextAuthSignIn(returned, thrown) ==
    IF returned # Null THEN [error |-> Null, url |-> "/dashboard"]
    ELSE IF thrown # Null THEN [error |-> thrown, url |-> Null]
    ELSE [error |-> "CredentialsSignin", url |-> Null]

getErrorMessage(error) ==
    CASE error = "CredentialsSignin" ->
            "Invalid email or password. Please try again."
      [] error = "RATE_LIMITED" ->
            "Too many login attempts. Please try again later."
      [] error = "MFA_INVALID" ->
            "Invalid authentication code. Please try again."
      [] error = "ACCOUNT_LOCKED" ->
            "Account has been locked due to too many failed attempts."
      [] OTHER -> "An error occurred during sign in. Please try again."

\* handleCredentialSignIn after its signIn call: the state the page is
\* left in
handleCredentialSignIn(pg, result) ==
    IF result.error # Null
    THEN IF result.error = "MFA_REQUIRED"
         THEN [pg EXCEPT !.requiresMFA = TRUE, !.formError = MfaPrompt]
         ELSE [pg EXCEPT !.formError = getErrorMessage(result.error)]
    ELSE IF result.url # Null
    THEN [pg EXCEPT !.formError = "", !.pushed = TRUE]
    ELSE [pg EXCEPT !.formError = ""]

\* the submit button is disabled while a field is empty or, once the code
\* is asked for, while the code has not six digits
SubmitDisabled(pg) ==
    \/ pg.formData.email = <<>>
    \/ pg.formData.password = ""
    \/ pg.requiresMFA /\ pg.formData.mfaCode = NoCode

\* the user fills in the fields the page shows: the code field is
\* rendered only when requiresMFA is set
PageFillIn(email, password, mfaCode) ==
    /\ ~page.requiresMFA => mfaCode = page.formData.mfaCode
    /\ page' = [page EXCEPT !.formData = [email |-> email,
                                          password |-> password,
                                          mfaCode |-> mfaCode]]
    /\ last' = [NoResult EXCEPT !.op = "fillIn"]
    /\ auditRows' = <<>>
    /\ Logged
    /\ UNCHANGED <<users, loginStore, registrationStore, apiStore, mfaStore,
                   isConnected, redisUp, now, mfaTries, calls, probe, issued>>

\* the form is submitted from the address ip
PageSubmit(ip) ==
    /\ ~SubmitDisabled(page)
    /\ Authorize(page.formData,
                 [forwarded |-> <<ip>>, real |-> NoHeader,
                  remote |-> NoHeader])
    /\ page' = handleCredentialSignIn(
                   page, NextAuthSignIn(last'.returned, last'.error))
    /\ Logged
    /\ UNCHANGED <<mfaTries, calls, probe, issued>>

----------------------------------------------------------------------------
(* The initial state: an administrator and a user, nobody signed in yet. *)

NoProbe == [method |-> Null]

NewUser(email, password, role) ==
    [email |-> email, passwordHash |-> BcryptHash(password), role |-> role,
     isActive |-> TRUE, isLocked |-> FALSE, lockReason |-> Null,
     loginAttempts |-> 0, lastLoginAt |-> NoTime, lastLoginIp |-> NoIp,
     mfaEnabled |-> FALSE, mfaSecret |-> NoSecret, mfaBackupCodes |-> <<>>]

FirstUsers ==
    (AdminId :> NewUser(AdminEmail, AdminPassword, "admin"))
        @@ (UserId :> NewUser(UserEmail, UserPassword, "user"))

LimiterKeys == {<<ip>> : ip \in IPs} \cup {Unknown}

Init ==
    /\ users = FirstUsers
    /\ loginStore = [k \in LimiterKeys |-> NoKey]
    /\ registrationStore = [k \in LimiterKeys |-> NoKey]
    /\ apiStore = [k \in LimiterKeys |-> NoKey]
    /\ mfaStore = [k \in UserIds |-> NoKey]
    /\ isConnected = TRUE
    /\ redisUp = TRUE
    /\ now = 0
    /\ last = NoResult
    /\ auditRows = <<>>
    /\ mfaTries = 0
    /\ calls = [p \in Callers |-> NoCall]
    /\ probe = NoProbe
    /\ page = SignInPage
    /\ issued = {}
    /\ auditDbUp = TRUE
    /\ fallbackRows = <<>>

----------------------------------------------------------------------------
(* The sign-in specification: sign-in attempts against the user's account, *)
(* administrator actions, and time.                                        *)

\* The history variable is kept where a claim reads it and left alone
\* elsewhere.
Counted(A) ==
    /\ A
    /\ Logged
    /\ UNCHANGED <<calls, probe, page, issued>>
    /\ mfaTries' = IF last'.op = "tick" THEN 0
                   ELSE IF last'.mfaVerified /\ last'.action # "enable"
                   THEN mfaTries + 1
                   ELSE mfaTries

Uncounted(A) == A /\ Logged /\ UNCHANGED <<mfaTries, page, issued, calls, probe>>

AdminToken == [userId |-> AdminId, role |-> "admin"]
UserToken == [userId |-> UserId, role |-> "user"]

Header(ip) == [forwarded |-> <<ip>>, real |-> NoHeader, remote |-> NoHeader]
NoHeaders == [forwarded |-> NoHeader, real |-> NoHeader, remote |-> NoHeader]

ApiRequest(method, ip, token) ==
    [method |-> method, forwarded |-> <<ip>>, real |-> NoHeader,
     remote |-> NoHeader, token |-> token]

SignIn(emails, passwords, codes, ips) ==
    \E email \in emails, password \in passwords, code \in codes,
       ip \in ips :
        /\ loginStore[AuthClientIp(Header(ip))].consumedPoints < MaxLoginHits
        /\ Authorize([email |-> email, password |-> password,
                      mfaCode |-> code], Header(ip))

AdminCall(tokens, targets, actions) ==
    \E token \in tokens, userId \in targets, action \in actions :
        LET request == ApiRequest("POST", "10.0.0.1", token)
        IN  /\ apiStore[GetClientIP(request)].consumedPoints < MaxApiHits
            /\ AdminUserAction(request, userId, action)

UserSignIn ==
    Uncounted(SignIn({UserEmail, <<"U", "@", "x">>}, {UserPassword, "wrong"},
                     {NoCode}, {"10.0.0.1"}))

AdminOnSelf == Uncounted(AdminCall({AdminToken}, {AdminId}, AdminActions))

AdminOnUser == Uncounted(AdminCall({AdminToken}, {UserId}, AdminActions))

NotAdmin == Uncounted(AdminCall({UserToken, NoToken}, {UserId}, {"lock"}))

WindowPasses == Uncounted(Tick(2 * TickStep))

Next == UserSignIn \/ AdminOnSelf \/ AdminOnUser \/ NotAdmin \/ WindowPasses

Spec == Init /\ [][Next]_vars

----------------------------------------------------------------------------
(* Claims about the sign-in specification. *)

\* a sign-in attempt for the user has just been handled
AttemptOn(id) ==
    /\ last'.op = "authorize"
    /\ ToLowerCase(last'.credentials.email) = users[id].email

\* C1 as stated: once the account is locked, every sign-in attempt for the
\* user is answered 'Account is locked. Please contact support.'
C1_LockedAttemptSaysLocked ==
    [][\A id \in DOMAIN users :
          AttemptOn(id) /\ users[id].isLocked => last'.error = LockedMsg]_vars

\* C1, amended: a wrong password that gets past the rate limiter on an
\* unlocked, active account adds one to loginAttempts, and the fifth locks
\* the account with lockReason 'Too many failed login attempts'; an unlocked
\* account has fewer than 5 attempts; on a locked account every sign-in
\* attempt fails, with 'Account is locked. Please contact support.' when it
\* gets past the rate limiter, and the account stays locked until an admin
\* unlock action succeeds.
C1_LockoutStep(id) ==
    LET user == users[id]
        after == users'[id]
        wrong == ~BcryptCompare(last'.credentials.password, user.passwordHash)
    IN  /\ ~user.isLocked => user.loginAttempts < 5
        /\ AttemptOn(id) /\ last'.passedLimiter /\ ~user.isLocked
              /\ user.isActive /\ wrong
           => /\ after.loginAttempts = user.loginAttempts + 1
              /\ after.isLocked = (after.loginAttempts = 5)
              /\ after.isLocked => after.lockReason = TooManyFailed
              /\ last'.returned = Null
        /\ AttemptOn(id) /\ user.isLocked
           => /\ last'.returned = Null
              /\ after = user
              /\ last'.passedLimiter => last'.error = LockedMsg
        /\ user.isLocked /\ ~after.isLocked
           => /\ last'.op = "adminUserAction"
              /\ last'.action = "unlock"
              /\ last'.target = id
              /\ last'.status = 200

C1_Lockout == [][\A id \in DOMAIN users : C1_LockoutStep(id)]_vars

\* C1 witness: five wrong passwords locked the account, and a later attempt
\* with the right password got past the rate limiter and was answered
\* 'Account is locked'.
C1_Witness ==
    /\ users[UserId].isLocked
    /\ users[UserId].loginAttempts = 5
    /\ users[UserId].lockReason = TooManyFailed
    /\ last.op = "authorize"
    /\ last.credentials.password = UserPassword
    /\ last.passedLimiter
    /\ last.error = LockedMsg

\* C10: an admin user action whose target is the caller is answered 400
\* 'Cannot modify your own account status' by the handler, whatever the
\* action, and the caller's row is left as it was.
C10_NoSelfModification ==
    [][last'.op = "adminUserAction" /\ last'.target = last'.caller
          => /\ users'[last'.caller] = users[last'.caller]
             /\ last'.handlerCalls = 1
                  => /\ last'.status = 400
                     /\ last'.error = "Cannot modify your own account status"
      ]_vars

\* C10 witness: the administrator asked to deactivate their own account and
\* got the 400.
C10_Witness ==
    /\ last.op = "adminUserAction"
    /\ last.caller = AdminId
    /\ last.target = AdminId
    /\ last.action = "deactivate"
    /\ last.handlerCalls = 1
    /\ last.status = 400
    /\ users[AdminId].isActive

----------------------------------------------------------------------------
(* The login rate-limit specification: failing sign-in attempts from two   *)
(* addresses while time passes in steps shorter than the window.           *)

FloodSignIn ==
    Uncounted(SignIn({UserEmail, <<"z", "@", "x">>}, {"wrong"}, {NoCode}, IPs))

TimePasses == Uncounted(Tick(TickStep))

NextLimit == FloodSignIn \/ TimePasses

SpecLimit == Init /\ [][NextLimit]_vars

\* C3: every sign-in attempt with email and password is counted on the key
\* of its client IP; the window of a key starts with its first attempt and
\* lasts 15 minutes; an attempt gets past the limiter only as one of the
\* first 5 of the window; every further attempt is rejected with 'Too many
\* login attempts. Please try again later.' before the user lookup, writes
\* the failed 'login' audit entry 'Rate limit exceeded' and leaves the users
\* table unchanged; the first rejected attempt blocks the key for 15
\* minutes, and a blocked key stays blocked until that time is over.
C3_AttemptStep ==
    LET k == last'.ip
        pre == loginStore[k]
        post == loginStore'[k]
    IN  /\ post.consumedPoints = pre.consumedPoints + 1
        /\ pre = NoKey => post.expireAt = now + 15 * 60
        /\ pre # NoKey /\ pre.consumedPoints # 5
              => post.expireAt = pre.expireAt
        /\ pre.consumedPoints = 5 => post.expireAt = now + 15 * 60
        /\ last'.passedLimiter => post.consumedPoints <= 5
        /\ pre.consumedPoints >= 5
              => /\ ~last'.passedLimiter
                 /\ last'.error = RateLimitedMsg
                 /\ last'.target = Null
                 /\ last'.returned = Null
                 /\ auditRows' = <<AuditEntry(Null, "login", k, FALSE,
                                              "Rate limit exceeded")>>
                 /\ users' = users

C3_LoginRateLimit ==
    [][/\ last'.op = "authorize" /\ last'.credentials.email # <<>>
            /\ last'.credentials.password # ""
          => C3_AttemptStep
       /\ \A k \in DOMAIN loginStore :
             loginStore[k].consumedPoints > 5 /\ now' < loginStore[k].expireAt
               => loginStore'[k] = loginStore[k]
                  \/ (last'.op = "authorize" /\ ~last'.passedLimiter)
      ]_vars

\* C3 witness: an address blocked at 7:30 is still rejected at 15:00, after
\* the window its first attempts opened would have ended.
C3_Witness ==
    /\ last.op = "authorize"
    /\ ~last.passedLimiter
    /\ last.error = RateLimitedMsg
    /\ now = 2 * TickStep
    /\ loginStore[last.ip].expireAt = TickStep + 15 * 60
    /\ loginStore[last.ip].consumedPoints = 7

----------------------------------------------------------------------------
(* The MFA specification: the user enrols, signs in with and without a    *)
(* code, and disables MFA again.                                           *)

SecretA == "JBSWY3DPEHPK3PXP"
SecretB == "KRSXG5CTMVRXEZLU"

\* the random numbers one generateBackupCodes call draws
Randoms ==
    [i \in 1..10 |->
        <<"0", ".", <<"0", "1", "2", "3", "4", "5", "6", "7", "8", "9">>[i],
          "a", "k", "3", "z", "9", "k", "a", "7", "z">>]

\* the code an authenticator holding the secret shows, `ahead` periods from
\* now
CodeAt(secret, ahead) == TotpCode(secret, TotpCounter(now) + ahead)

MfaCall(actions, bodies, hits) ==
    \E action \in actions, body \in bodies :
        LET request == ApiRequest("POST", "10.0.0.1", UserToken)
        IN  /\ apiStore[GetClientIP(request)].consumedPoints < hits
            /\ MfaRoute(request, action, body, Randoms)

Enrol ==
    Uncounted(MfaCall({"enable"},
                      {[token |-> CodeAt(SecretA, 0), secret |-> SecretA],
                       [token |-> CodeAt(SecretA, 3), secret |-> SecretA]},
                      MaxApiHits))

Disable ==
    Uncounted(MfaCall({"disable"},
                      {[token |-> CodeAt(SecretA, 1)],
                       [token |-> CodeAt(SecretA, 0 - 3)]},
                      MaxApiHits))

SignInCodes ==
    {NoCode, CodeAt(SecretA, 0 - 2), CodeAt(SecretA, 3), CodeAt(SecretB, 2)}

MfaSignIn ==
    Uncounted(SignIn({UserEmail}, {UserPassword, "wrong"}, SignInCodes,
                     {"10.0.0.1"}))

NextMfa == Enrol \/ Disable \/ MfaSignIn \/ WindowPasses

SpecMfa == Init /\ [][NextMfa]_vars

\* the code is one of the five the secret has within two periods of now
InWindow(code, secret) ==
    \E ahead \in (0 - 2)..2 : code = CodeAt(secret, ahead)

\* C2: a sign-in attempt for a user with mfaEnabled returns the user only
\* if it carried a code that verifies against the user's stored secret;
\* with a missing or invalid code nobody is signed in, loginAttempts is not
\* reset and lastLoginAt and lastLoginIp stay as they were, and with the
\* correct password the row does not change at all.
C2_Step(id) ==
    LET user == users[id]
        after == users'[id]
        code == last'.credentials.mfaCode
        valid == code # NoCode /\ InWindow(code, user.mfaSecret)
    IN  AttemptOn(id) /\ user.mfaEnabled
        => /\ last'.returned # Null => valid
           /\ ~valid
              => /\ last'.returned = Null
                 /\ after.loginAttempts >= user.loginAttempts
                 /\ after.lastLoginAt = user.lastLoginAt
                 /\ after.lastLoginIp = user.lastLoginIp
                 /\ BcryptCompare(last'.credentials.password,
                                  user.passwordHash) => after = user

C2_MfaEnforced == [][\A id \in DOMAIN users : C2_Step(id)]_vars

\* C2 witness: after a failed password, the right password with a code of
\* another secret was refused and the failure count kept.
C2_Witness ==
    /\ users[UserId].mfaEnabled
    /\ users[UserId].mfaSecret = SecretA
    /\ users[UserId].loginAttempts > 0
    /\ last.op = "authorize"
    /\ last.credentials.password = UserPassword
    /\ last.credentials.mfaCode = CodeAt(SecretB, 2)
    /\ last.mfaVerified
    /\ last.returned = Null

----------------------------------------------------------------------------
(* The code-guessing specification: the user has enrolled, and wrong MFA   *)
(* codes are tried at sign-in, on disable and on regenerate-backup-codes.  *)

WrongCode == CodeAt(SecretA, 3)

EnrolFirst ==
    Counted(MfaCall({"enable"},
                    {[token |-> CodeAt(SecretA, 0), secret |-> SecretA]},
                    MaxFloodHits))

GuessOnDisable ==
    /\ mfaTries <= MfaPoints
    /\ Counted(MfaCall({"disable"}, {[token |-> WrongCode]}, MaxFloodHits))

GuessOnRegenerate ==
    /\ mfaTries <= MfaPoints
    /\ Counted(MfaCall({"regenerate-backup-codes"}, {[token |-> WrongCode]},
                       MaxFloodHits))

GuessOnSignIn ==
    /\ mfaTries <= MfaPoints
    /\ Counted(SignIn({UserEmail}, {UserPassword}, {WrongCode},
                      {"10.0.0.2"}))

GuessLater == Counted(Tick(2 * TickStep))

NextFlood ==
    EnrolFirst \/ GuessOnDisable \/ GuessOnRegenerate \/ GuessOnSignIn
    \/ GuessLater

SpecFlood == Init /\ [][NextFlood]_vars

\* C4 as stated: once 10 MFA codes have been verified for a user within 5
\* minutes, no further code is verified for that user: the count of codes
\* verified since the clock last moved never passes 10.
C4_NoEleventhVerification == mfaTries <= MfaPoints

----------------------------------------------------------------------------
(* The API rate-limit specification: admin requests from two addresses,    *)
(* one of which may already have used 999 of its 1000 requests of the      *)
(* hour, while the Redis server goes down and comes back.  The process has *)
(* just started: the Redis client is not connected yet.                    *)

NearlySpent == [consumedPoints |-> ApiPoints - 1, expireAt |-> 60 * 60]

InitApi ==
    /\ users = FirstUsers
    /\ loginStore = [k \in LimiterKeys |-> NoKey]
    /\ registrationStore = [k \in LimiterKeys |-> NoKey]
    /\ \E first \in {NoKey, NearlySpent} :
          apiStore = [k \in LimiterKeys |->
                        IF k = <<"10.0.0.1">> THEN first ELSE NoKey]
    /\ mfaStore = [k \in UserIds |-> NoKey]
    /\ isConnected = FALSE
    /\ redisUp = TRUE
    /\ now = 0
    /\ last = NoResult
    /\ auditRows = <<>>
    /\ mfaTries = 0
    /\ calls = [p \in Callers |-> NoCall]
    /\ probe = NoProbe
    /\ page = SignInPage
    /\ issued = {}
    /\ auditDbUp = TRUE
    /\ fallbackRows = <<>>

\* the requests explored on a key: the first ones and those around the limit
Explored(key) ==
    \/ apiStore[key].consumedPoints < MaxApiHits
    \/ /\ apiStore[key].consumedPoints >= ApiPoints - 1
       /\ apiStore[key].consumedPoints < ApiPoints + MaxOverLimit

ApiCall ==
    \E method \in {"POST", "OPTIONS"}, ip \in IPs,
       token \in {AdminToken, UserToken, NoToken},
       action \in {"lock", "unlock"} :
        LET request == ApiRequest(method, ip, token)
        IN  /\ Explored(GetClientIP(request))
            /\ Uncounted(AdminUserAction(request, UserId, action))

RedisFails == Uncounted(RedisDown)

RedisRecovers == Uncounted(RedisBack)

NextApi == ApiCall \/ RedisFails \/ RedisRecovers

SpecApi == InitApi /\ [][NextApi]_vars

\* C5 as stated: a request through the middleware whose rate-limit check
\* returned allowed = false is answered 429 'Rate limit exceeded', and
\* neither the auth check nor the route handler is called for it.
C5_RejectedGets429 ==
    last.op = "adminUserAction" /\ ~last.passedLimiter
    => /\ last.status = 429
       /\ last.error = "Rate limit exceeded"
       /\ last.wrappedCalls = 0
       /\ last.handlerCalls = 0

\* C6: when the rate-limit check fails with an error, withRateLimit calls
\* the handler it wraps exactly once and the response is the handler's, not
\* a 429: an administrator's request reaches the route handler and takes
\* effect, any other caller gets the answer of the auth check.
C6_FailsOpen ==
    last.op = "adminUserAction" /\ last.limiterError
    => /\ last.wrappedCalls = 1
       /\ last.status # 429
       /\ last.caller = AdminId
          => /\ last.handlerCalls = 1
             /\ last.status = 200
             /\ users[last.target].isLocked = (last.action = "lock")
       /\ last.caller = UserId => last.status = 403 /\ last.handlerCalls = 0
       /\ last.caller = Null => last.status = 401 /\ last.handlerCalls = 0

\* C6 witness: with Redis down, the administrator's lock request went
\* through and locked the user.
C6_Witness ==
    /\ ~redisUp
    /\ last.op = "adminUserAction"
    /\ last.limiterError
    /\ last.caller = AdminId
    /\ last.action = "lock"
    /\ last.status = 200
    /\ last.handlerCalls = 1
    /\ users[UserId].isLocked

----------------------------------------------------------------------------
(* The backup-code specification: the user has enrolled, and three         *)
(* requests verify backup codes of the account, each at its own pace.      *)

Enrolled ==
    enableMFA(FirstUsers, UserId, SecretA, TotpCode(SecretA, 0),
              <<"10.0.0.1">>, 0, Randoms).users

StoredCodes == Enrolled[UserId].mfaBackupCodes

WrongBackupCode == <<"Z", "Z", "Z", "Z", "Z", "Z", "Z", "Z">>

InitBackup ==
    /\ users = Enrolled
    /\ loginStore = [k \in LimiterKeys |-> NoKey]
    /\ registrationStore = [k \in LimiterKeys |-> NoKey]
    /\ apiStore = [k \in LimiterKeys |-> NoKey]
    /\ mfaStore = [k \in UserIds |-> NoKey]
    /\ isConnected = TRUE
    /\ redisUp = TRUE
    /\ now = 0
    /\ last = NoResult
    /\ auditRows = <<>>
    /\ mfaTries = 0
    /\ calls = [p \in Callers |-> NoCall]
    /\ probe = NoProbe
    /\ page = SignInPage
    /\ issued = {}
    /\ auditDbUp = TRUE
    /\ fallbackRows = <<>>

BackupSelect ==
    \E p \in Callers, userId \in UserIds,
       backupCode \in {StoredCodes[1], StoredCodes[2], WrongBackupCode} :
        verifyBackupCode_Select(p, userId, backupCode, <<"10.0.0.1">>)

BackupUpdate ==
    \E p \in Callers : verifyBackupCode_Update(p, <<"10.0.0.1">>)

NextBackup == BackupSelect \/ BackupUpdate

SpecBackup == InitBackup /\ [][NextBackup]_vars

\* C7 as stated: of the verifyBackupCode calls made with one backup code of
\* one user, at most one returns success, however the calls interleave.
C7_SingleUse ==
    \A p, q \in Callers :
        /\ p # q
        /\ calls[p].pc = "done" /\ calls[p].success
        /\ calls[q].pc = "done" /\ calls[q].success
        /\ calls[p].userId = calls[q].userId
        => calls[p].backupCode # calls[q].backupCode

----------------------------------------------------------------------------
(* The generator specification: generateBackupCodes is called with and     *)
(* without a count, on the random numbers Math.random may return: a long   *)
(* fraction, or 0.5, which is "0.i" in base 36.                            *)

RandomPool ==
    {<<"0", ".", "a", "k", "3", "z", "9", "k", "a", "7", "z">>,
     <<"0", ".", "i">>}

Generate ==
    /\ \E count \in {NoArg} \cup 0..MaxCount :
         \E randoms \in [1..Default(count, DefaultCount) -> RandomPool] :
            probe' = [method |-> "generateBackupCodes", count |-> count,
                      out |-> generateBackupCodes(count, randoms)]
    /\ UNCHANGED <<users, loginStore, registrationStore, apiStore, mfaStore, isConnected,
                   redisUp, now, last, auditRows, mfaTries, page, issued, calls, auditDbUp,
                   fallbackRows>>

NextGen == Generate

SpecGen == Init /\ [][NextGen]_vars

UpperAlnum ==
    {"A", "B", "C", "D", "E", "F", "G", "H", "I", "J", "K", "L", "M", "N",
     "O", "P", "Q", "R", "S", "T", "U", "V", "W", "X", "Y", "Z",
     "0", "1", "2", "3", "4", "5", "6", "7", "8", "9"}

\* C8 as stated: generateBackupCodes called with no argument returns 10
\* codes, each of 8 characters, all of them in A-Z and 0-9.
C8_TenCodesOfEight ==
    probe.method = "generateBackupCodes" /\ probe.count = NoArg
    => /\ Len(probe.out) = 10
       /\ \A i \in 1..Len(probe.out) :
            /\ Len(probe.out[i]) = 8
            /\ \A j \in 1..Len(probe.out[i]) : probe.out[i][j] \in UpperAlnum

----------------------------------------------------------------------------
(* The TOTP specification: verifyToken is called with its default window,  *)
(* at different times, on the codes of the periods around now, on the      *)
(* codes of another secret, and on 000000.                                 *)

TriedTokens ==
    {CodeAt(secret, ahead) :
        secret \in {SecretA, SecretB}, ahead \in (0 - MaxAhead)..MaxAhead}
    \cup {0}

Verify ==
    /\ \E secret \in {SecretA, SecretB}, token \in TriedTokens :
         probe' = [method |-> "verifyToken", token |-> token,
                   secret |-> secret, t |-> now,
                   out |-> verifyToken(token, secret, NoArg, now)]
    /\ UNCHANGED <<users, loginStore, registrationStore, apiStore, mfaStore, isConnected,
                   redisUp, now, last, auditRows, mfaTries, page, issued, calls, auditDbUp,
                   fallbackRows>>

SomeTimePasses == Uncounted(Tick(TickStep \div 6))

NextTotp == Verify \/ SomeTimePasses

SpecTotp == Init /\ [][NextTotp]_vars

\* C9: verifyToken(token, secret) with the default window returns true
\* exactly when the token is the code of the secret for the current period
\* or for a period at most 2 before or after it.
C9_WindowOfTwo ==
    probe.method = "verifyToken"
    => probe.out =
         (\E d \in (0 - 2)..2 :
            probe.token = TotpCode(probe.secret, TotpCounter(probe.t) + d))

\* C9 witness: a code two periods old, and of no nearer period, was
\* accepted.
C9_Witness ==
    /\ probe.method = "verifyToken"
    /\ probe.t > 0
    /\ probe.out
    /\ probe.token = TotpCode(probe.secret, TotpCounter(probe.t) - 2)
    /\ \A d \in (0 - 1)..2 :
         probe.token # TotpCode(probe.secret, TotpCounter(probe.t) + d)

----------------------------------------------------------------------------
(* The admin specification: the three admin endpoints are called with an   *)
(* administrator's token, a user's token and no token, from an address     *)
(* that may be at its API limit, while Redis goes down and comes back.     *)

AdminOps == {"adminListUsers", "adminAuditStats", "adminUserAction"}

AdminTokens == {AdminToken, UserToken, NoToken}

ListUsers ==
    \E ip \in IPs, token \in AdminTokens :
        LET request == ApiRequest("GET", ip, token)
        IN  /\ Explored(GetClientIP(request))
            /\ Uncounted(AdminListUsers(request))

AuditStats ==
    \E ip \in IPs, token \in AdminTokens :
        LET request == ApiRequest("GET", ip, token)
        IN  /\ Explored(GetClientIP(request))
            /\ Uncounted(AdminAuditStats(request))

UserAction ==
    \E ip \in IPs, token \in AdminTokens, userId \in UserIds,
       action \in {"lock", "deactivate"} :
        LET request == ApiRequest("POST", ip, token)
        IN  /\ Explored(GetClientIP(request))
            /\ Uncounted(AdminUserAction(request, userId, action))

NextAdmin ==
    ListUsers \/ AuditStats \/ UserAction \/ RedisFails \/ RedisRecovers

SpecAdmin == InitApi /\ [][NextAdmin]_vars

\* C11: on the admin users list, the admin user actions and the admin audit
\* statistics the handler runs only for a token whose role is 'admin'; a
\* request without a token is answered 401 'Authentication required', a
\* token of another role 403 'Insufficient permissions' with a failed
\* 'api_access' audit entry, and both leave the users table unchanged.
C11_Step ==
    last'.op \in AdminOps
    => /\ last'.handlerCalls = 1 => last'.role = "admin"
       /\ last'.role = Null
            => /\ last'.status = 401
               /\ last'.error = "Authentication required"
               /\ last'.handlerCalls = 0
               /\ users' = users
       /\ last'.role \notin {Null, "admin"}
            => /\ last'.status = 403
               /\ last'.error = "Insufficient permissions"
               /\ last'.handlerCalls = 0
               /\ users' = users
               /\ \E i \in 1..Len(auditRows') :
                     auditRows'[i] =
                        AuditEntry(last'.caller, "api_access", last'.ip,
                                   FALSE, "Insufficient permissions")

C11_AdminOnly == [][C11_Step]_vars

\* C11 witness: a user's request for the users list, sent past the API
\* limit, was refused with 403 and logged.
C11_Witness ==
    /\ last.op = "adminListUsers"
    /\ last.role = "user"
    /\ ~last.passedLimiter
    /\ last.status = 403
    /\ last.handlerCalls = 0
    /\ Len(auditRows) = 2

----------------------------------------------------------------------------
(* The audit specification: sign-ins, admin actions and MFA enrolment      *)
(* while inserts into audit_logs fail and succeed again.                   *)

AuditedSignIn ==
    Uncounted(SignIn({UserEmail}, {UserPassword, "wrong"}, {NoCode},
                     {"10.0.0.1"}))

AuditedAdmin ==
    Uncounted(AdminCall({AdminToken}, {UserId}, {"lock", "unlock"}))

NextAudit ==
    AuditedSignIn \/ AuditedAdmin \/ Enrol \/ AuditDbDown \/ AuditDbBack

SpecAudit == Init /\ [][NextAudit]_vars

Requests == {"authorize", "adminUserAction", "mfa"}

\* C12: auditLogger.log never throws; every entry a request logs while the
\* insert into audit_logs fails is handed to the fallback logger (and none
\* when the insert succeeds), and the request completes as it does with
\* working audit logging: a sign-in with the right password returns the
\* user and resets loginAttempts, a wrong password is counted, an
\* administrator's lock or unlock is answered 200 and applied, a valid
\* MFA enable is answered 200 and applied.
C12_Step ==
    LET id == last'.target
        row == users[id]
        after == users'[id]
    IN  last'.op \in Requests
        => /\ fallbackRows' = IF auditDbUp THEN <<>> ELSE auditRows'
           /\ /\ last'.op = "authorize" /\ last'.passedLimiter
              /\ id # Null /\ ~row.isLocked /\ row.isActive
              /\ ~row.mfaEnabled
              => IF BcryptCompare(last'.credentials.password,
                                  row.passwordHash)
                 THEN /\ last'.returned = id
                      /\ after.loginAttempts = 0
                      /\ after.lastLoginIp = last'.ip
                 ELSE /\ last'.returned = Null
                      /\ after.loginAttempts = row.loginAttempts + 1
           /\ last'.op = "adminUserAction" /\ last'.role = "admin"
              => /\ last'.status = 200
                 /\ after.isLocked = (last'.action = "lock")
           /\ /\ last'.op = "mfa" /\ last'.action = "enable"
              /\ InWindow(last'.credentials.mfaCode, SecretA)
              => /\ last'.status = 200
                 /\ after.mfaEnabled

C12_AuditNeverBreaks == [][C12_Step]_vars

\* C12 witness: with the audit inserts failing, a sign-in succeeded and
\* its audit entry went to the fallback logger.
C12_Witness ==
    /\ ~auditDbUp
    /\ last.op = "authorize"
    /\ last.returned = UserId
    /\ users[UserId].loginAttempts = 0
    /\ Len(fallbackRows) = 1
    /\ fallbackRows[1] = AuditEntry(UserId, "login", last.ip, TRUE, Null)

----------------------------------------------------------------------------
(* The profile specification: the user enrols in MFA, and signed-in and    *)
(* anonymous callers read and change profiles.                             *)

Sessions ==
    {[userId |-> UserId, email |-> UserEmail],
     [userId |-> AdminId, email |-> AdminEmail],
     NoSession}

NewEmail == <<"n", "@", "x">>

GetProfile == \E session \in Sessions : ProfileGet(session)

PatchProfile ==
    \E session \in Sessions, email \in {UserEmail, AdminEmail, NewEmail},
       exported \in BOOLEAN :
        ProfilePatch(session, email, exported)

NextProfile == GetProfile \/ PatchProfile \/ Enrol

SpecProfile == Init /\ [][NextProfile]_vars

\* C13 as stated: the user object of a profile GET or PATCH response has
\* neither the password hash nor the MFA secret of the row among its
\* fields.
C13_NoSensitiveFields ==
    probe.method \in {"profileGet", "profilePatch"} /\ probe.status = 200
    => /\ "passwordHash" \notin DOMAIN probe.user
       /\ "mfaSecret" \notin DOMAIN probe.user

----------------------------------------------------------------------------
(* The health specification: the health endpoint and the container's       *)
(* health-check script, with the database and Redis up or down, before and *)
(* after the first rate-limited request has connected the Redis client,    *)
(* and from an address at its API limit.                                   *)

GetHealth ==
    \E ip \in IPs, selectSucceeds \in BOOLEAN :
        HealthGet(ApiRequest("GET", ip, NoToken), selectSucceeds)

RunHealthcheck ==
    \E event \in {"response", "error", "timeout"},
       selectSucceeds \in BOOLEAN :
        Healthcheck(event, selectSucceeds)

OtherRequest ==
    LET request == ApiRequest("GET", "10.0.0.1", AdminToken)
    IN  /\ Explored(GetClientIP(request))
        /\ Uncounted(AdminListUsers(request))

NextHealth ==
    GetHealth \/ RunHealthcheck \/ OtherRequest \/ RedisFails
        \/ RedisRecovers

SpecHealth == InitApi /\ [][NextHealth]_vars

\* C14: the health endpoint answers 200 exactly when the database check
\* and the Redis check both succeed and 503 otherwise; it is served
\* without consuming or consulting the rate limit of the caller; the
\* health-check script exits 0 exactly when it received status 200.
C14_Step ==
    last'.op \in {"healthGet", "healthcheck"}
    => /\ probe'.event = "response"
            => /\ probe'.status = 200 <=> probe'.database /\ probe'.redis
               /\ probe'.status \in {200, 503}
               /\ probe'.redis = (isConnected /\ redisUp)
               /\ last'.handlerCalls = 1
       /\ apiStore' = apiStore
       /\ last'.op = "healthcheck"
            => (probe'.exit = 0
                  <=> probe'.event = "response" /\ probe'.status = 200)

C14_HealthExact == [][C14_Step]_vars

\* C14 witness: from an address past its API limit, with the database
\* down and Redis up, the endpoint answered 503.
C14_Witness ==
    /\ last.op = "healthGet"
    /\ apiStore[last.ip].consumedPoints > ApiPoints
    /\ probe.status = 503
    /\ probe.redis
    /\ ~probe.database

----------------------------------------------------------------------------
(* The registration specification: registrations one after the other, of   *)
(* new and of taken addresses in either case, with valid and invalid       *)
(* input, up to and past the registration limit, with Redis up or down.    *)

MaxRegistrations == 4   \* registration requests explored from one address

RegisterRequest(ip, email, password) ==
    [body |-> [email |-> email, password |-> password]]
        @@ ApiRequest("POST", ip, NoToken)

NewEmail_Upper == <<"N", "@", "x">>
NewEmail_Lower == <<"n", "@", "x">>
UserEmail_Upper == <<"U", "@", "x">>
NotAnEmail == <<"n", "x">>

RegisterStart(callers, emails, passwords) ==
    \E p \in callers, ip \in IPs, email \in emails, password \in passwords :
        /\ registrationStore[<<ip>>].consumedPoints < MaxRegistrations
        /\ Register_Select(p, RegisterRequest(ip, email, password))

RegisterFinish == \E p \in Callers : Register_Insert(p)

RegisterOne ==
    RegisterStart({"r1"}, {NewEmail_Upper, NewEmail_Lower, UserEmail_Upper,
                           NotAnEmail}, {NewPassword, NoSpecial, TooShort})

NextRegister == RegisterOne \/ RegisterFinish \/ RedisFails \/ RedisRecovers

SpecRegister == Init /\ [][NextRegister]_vars

Normalised(email) == sanitizeInput(ToLowerCase(email))

ValidInput(credentials) ==
    ZodEmail(credentials.email) /\ credentials.password = NewPassword

\* C15: a registration with valid input that is not rate-limited and whose
\* lower-cased, sanitized email is that of an existing user is answered
\* 409 'An account with this email already exists', leaves the users
\* table as it was and writes a failed 'register' audit entry; one whose
\* email matches no user goes on to its insert, which adds exactly one
\* row, with that email, role 'user', isActive, not locked, no login
\* attempts and MFA off, changes no other row, and is answered 201.
C15_Step ==
    last'.op = "register"
    => /\ \A p \in Callers :
            calls[p].pc # "insert" /\ last'.caller = p
            /\ last'.passedLimiter /\ ValidInput(last'.credentials)
            => IF \E id \in DOMAIN users :
                     users[id].email = Normalised(last'.credentials.email)
               THEN /\ last'.status = 409
                    /\ last'.error
                         = "An account with this email already exists"
                    /\ users' = users
                    /\ \E i \in 1..Len(auditRows') :
                          /\ auditRows'[i].action = "register"
                          /\ ~auditRows'[i].success
               ELSE /\ calls'[p].pc = "insert"
                    /\ calls'[p].email = Normalised(last'.credentials.email)
                    /\ users' = users
       /\ \A p \in Callers :
            calls[p].pc = "insert" /\ last'.caller = p
            => /\ last'.status = 201
               /\ \E id \in DOMAIN users' \ DOMAIN users :
                     /\ DOMAIN users' = DOMAIN users \cup {id}
                     /\ users'[id].email = calls[p].email
                     /\ users'[id].role = "user"
                     /\ users'[id].isActive
                     /\ ~users'[id].isLocked
                     /\ users'[id].loginAttempts = 0
                     /\ ~users'[id].mfaEnabled
               /\ \A id \in DOMAIN users : users'[id] = users[id]

C15_DuplicateRejected == [][C15_Step]_vars

\* C15 witness: N@x was registered as n@x, and a later registration of
\* n@x has been answered 409.
C15_Witness ==
    /\ last.op = "register"
    /\ last.status = 409
    /\ last.credentials.email = NewEmail_Lower
    /\ \E id \in NewIds \cap DOMAIN users :
          users[id].email = NewEmail_Lower /\ users[id].role = "user"

----------------------------------------------------------------------------
(* The sign-in page specification: the user has enrolled in MFA; one       *)
(* browser fills in and submits the sign-in form.                          *)

FillIn ==
    \E email \in {UserEmail, AdminEmail},
       password \in {UserPassword, AdminPassword},
       mfaCode \in {NoCode, CodeAt(SecretA, 0), CodeAt(SecretB, 0)} :
        PageFillIn(email, password, mfaCode)

Submit ==
    /\ loginStore[<<"10.0.0.1">>].consumedPoints < MaxLoginHits
    /\ PageSubmit("10.0.0.1")

NextPage == FillIn \/ Submit

SpecPage == InitBackup /\ [][NextPage]_vars

\* C16: when a user with MFA enabled submits the correct email and
\* password without a code (the attempt passing the login rate limiter,
\* the account active and not locked), the page is left asking for the
\* code: requiresMFA is true and the 6-digit-code message is shown.
C16_Step ==
    /\ last'.op = "authorize"
    /\ last'.passedLimiter
    /\ page.formData = [email |-> UserEmail, password |-> UserPassword,
                        mfaCode |-> NoCode]
    /\ users[UserId].mfaEnabled
    /\ users[UserId].isActive /\ ~users[UserId].isLocked
    => /\ page'.requiresMFA
       /\ page'.formError = MfaPrompt

C16_PagePromptsForCode == [][C16_Step]_vars

----------------------------------------------------------------------------
(* The enrollment specification: users ask for secrets, and the user       *)
(* enables MFA with a secret and the code an authenticator holding that    *)
(* secret shows, and disables it again.                                    *)

AskSecret ==
    \E token \in {AdminToken, UserToken, NoToken},
       drawn \in {SecretA, SecretB} :
        LET request == ApiRequest("GET", "10.0.0.1", token)
        IN  /\ apiStore[GetClientIP(request)].consumedPoints < MaxEnrolHits
            /\ MfaGenerateSecret(request, drawn)

EnableWith ==
    Uncounted(MfaCall({"enable"},
                      {[token |-> CodeAt(secret, 0), secret |-> secret] :
                          secret \in {SecretA, SecretB}}
                        \cup {[token |-> CodeAt(SecretB, 0),
                                secret |-> SecretA]},
                      MaxEnrolHits))

DisableWith ==
    Uncounted(MfaCall({"disable"},
                      {[token |-> CodeAt(secret, 0)] :
                          secret \in {SecretA, SecretB}},
                      MaxEnrolHits))

NextEnrol == AskSecret \/ EnableWith \/ DisableWith

SpecEnrol == Init /\ [][NextEnrol]_vars

\* C17: the secret an 'enable' stores as a user's mfaSecret is one that a
\* preceding generate-secret issued to that user; an 'enable' with any
\* other secret does not enable MFA.
C17_Step ==
    last'.op = "mfa" /\ last'.action = "enable"
    => \A id \in DOMAIN users :
          users'[id].mfaEnabled /\ ~users[id].mfaEnabled
          => <<id, users'[id].mfaSecret>> \in issued

C17_EnabledSecretWasIssued == [][C17_Step]_vars

----------------------------------------------------------------------------
(* The connection specification: the process has just started, and three   *)
(* requests call the rate limiter's functions, each at its own pace.       *)

LimiterCall ==
    \E p \in Callers, op \in LimiterOps, accepted \in BOOLEAN :
        ensureConnection_Test(p, op, <<"10.0.0.1">>, accepted)

LimiterConnected == \E p \in Callers : ensureConnection_Set(p)

LimiterAnswer == \E p \in Callers : Limiter_Command(p)

NextConn == LimiterCall \/ LimiterConnected \/ LimiterAnswer

SpecConn == InitApi /\ [][NextConn]_vars

\* C18: whatever the interleaving of concurrent checkRateLimit,
\* getRateLimitInfo and resetRateLimit calls, redisClient.connect() is
\* invoked at most once, and no checkRateLimit call is answered
\* allowed = false because another call was connecting.
C18_ConnectOnce ==
    /\ Cardinality(Connecting(calls)) <= 1
    /\ \A p \in Callers :
          calls[p].pc = "done" /\ calls[p].op = "checkRateLimit"
          => ~calls[p].connectRejected

----------------------------------------------------------------------------
(* The concurrent registration specification: three requests register the  *)
(* same address, written in upper or lower case, each at its own pace.     *)

RegisterTogether ==
    \E p \in Callers :
        /\ calls[p].pc = "idle"
        /\ RegisterStart({p}, {NewEmail_Upper, NewEmail_Lower}, {NewPassword})

NextRace == RegisterTogether \/ RegisterFinish

SpecRace == Init /\ [][NextRace]_vars

RowsOf(email) == {id \in DOMAIN users : users[id].email = email}

AnsweredCalls == {p \in Callers : calls[p].pc = "done"}

\* C19: however registrations of one address interleave, the users table
\* never holds two rows with the address; once any of them is answered,
\* there is exactly one row, exactly one request has been answered 201 and
\* every other answered request got 409 or 500; a request answered with an
\* error creates no row.
C19_OneRowOne201 ==
    /\ Cardinality(RowsOf(NewEmail_Lower)) <= 1
    /\ RowsOf(NewEmail_Upper) = {}
    /\ AnsweredCalls # {}
        => /\ Cardinality(RowsOf(NewEmail_Lower)) = 1
           /\ Cardinality({p \in AnsweredCalls : calls[p].status = 201}) = 1
           /\ \A p \in AnsweredCalls : calls[p].status \in {201, 409, 500}
           /\ \A p \in AnsweredCalls :
                 calls[p].status = 201 <=> calls[p].userId \in DOMAIN users

\* C19 witness: two requests both found no user and went on to insert;
\* one was answered 201 and the other 500, and a third, later one 409.
C19_Witness ==
    /\ AnsweredCalls = Callers
    /\ \E p, q, r \in Callers :
          /\ calls[p].status = 201
          /\ calls[q].status = 500
          /\ calls[r].status = 409

----------------------------------------------------------------------------
(* The unlock specification: the user, enrolled in MFA or not, signs in    *)
(* with right and wrong passwords, with and without a code; the            *)
(* administrator locks, unlocks, deactivates and activates the account;    *)
(* the login window passes.                                                *)

InitUnlock ==
    /\ users \in {FirstUsers, Enrolled}
    /\ loginStore = [k \in LimiterKeys |-> NoKey]
    /\ registrationStore = [k \in LimiterKeys |-> NoKey]
    /\ apiStore = [k \in LimiterKeys |-> NoKey]
    /\ mfaStore = [k \in UserIds |-> NoKey]
    /\ isConnected = TRUE
    /\ redisUp = TRUE
    /\ now = 0
    /\ last = NoResult
    /\ auditRows = <<>>
    /\ mfaTries = 0
    /\ calls = [p \in Callers |-> NoCall]
    /\ probe = NoProbe
    /\ page = SignInPage
    /\ issued = {}
    /\ auditDbUp = TRUE
    /\ fallbackRows = <<>>

SignInAttempt ==
    Uncounted(SignIn({UserEmail}, {UserPassword, "wrong"},
                     {NoCode, CodeAt(SecretA, 0)}, {"10.0.0.1"}))

AdminActs ==
    Uncounted(AdminCall({AdminToken}, {UserId}, AdminActions))

NextUnlock == SignInAttempt \/ AdminActs \/ WindowPasses

SpecUnlock == InitUnlock /\ [][NextUnlock]_vars

\* an administrator's action on the user has just succeeded
AdminDid(action, id) ==
    /\ last'.op = "adminUserAction"
    /\ last'.action = action
    /\ last'.target = id
    /\ last'.status = 200

\* C20: a successful admin 'unlock' of another existing user sets
\* isLocked = false, lockReason = null and loginAttempts = 0 and changes
\* no other column of the row and no other row; a sign-in attempt for an
\* active, unlocked user with the correct password (and a valid code if
\* MFA is enabled) that passes the login rate limiter returns the user;
\* and a sign-in attempt raises loginAttempts by at most one and locks the
\* account only on reaching 5, so 5 failed attempts after the unlock are
\* needed to lock it again.
C20_Step ==
    \A id \in DOMAIN users :
        /\ AdminDid("unlock", id)
            => /\ id # last'.caller
               /\ users' = [users EXCEPT ![id].isLocked = FALSE,
                                         ![id].lockReason = Null,
                                         ![id].loginAttempts = 0]
        /\ AttemptOn(id) /\ last'.passedLimiter
           /\ users[id].isActive /\ ~users[id].isLocked
           /\ last'.credentials.password = UserPassword
           /\ (users[id].mfaEnabled
                 => InWindow(last'.credentials.mfaCode, users[id].mfaSecret))
            => /\ last'.returned = id
               /\ users'[id].loginAttempts = 0
        /\ last'.op = "authorize"
            => /\ users'[id].loginAttempts <= users[id].loginAttempts + 1
               /\ users'[id].isLocked /\ ~users[id].isLocked
                    => /\ users'[id].loginAttempts = 5
                       /\ users[id].loginAttempts = 4
                       /\ last'.returned = Null

====
